---- MODULE Spec2Model ----
(***************************************************************************)
(* Contact Graph Routing kernel (src/src/cgr_live.c, src/src/heap.c).      *)
(*                                                                         *)
(* Units.  The C code computes in double; the model computes in integers. *)
(* A time is a number of ticks of 1e-12 s and a byte count a number of    *)
(* units of 1e-12 byte, so that a rate in bytes per second is the same    *)
(* number in units per tick, EPS_TIME (1e-12 s) is 1 tick, EPS_BYTES      *)
(* (1e-9 byte) is 1000 units and the rate floor 1.0 is 1.  All modelled   *)
(* bundle sizes are multiples of all modelled rates, so bundle/rate is    *)
(* exact.  Contact indices are 1..N (the C arrays are 0-based); the root  *)
(* back-pointer stays -1.                                                 *)
(***************************************************************************)
EXTENDS Integers, Sequences, FiniteSets, TLC

\* ---------------------------------------------------------------- constants
EPS_TIME == 1
EPS_BYTES == 1000
DBL_MAX == 1000000000
RATE_FLOOR == 1
YEN_ATTEMPT_FACTOR == 20

\* ------------------------------------------------------------------- bounds
MaxContacts == 3
MaxK == 3
MaxCalls == 2

Max2(a, b) == IF a > b THEN a ELSE b
Min2(a, b) == IF a < b THEN a ELSE b

\* ---------------------------------------------------- neighbour index (4.B)
RECURSIVE MaxNodeOf(_, _)
MaxNodeOf(C, i) ==
    IF i > Len(C) THEN 0
    ELSE LET m == MaxNodeOf(C, i + 1)
             a == IF C[i].from > m THEN C[i].from ELSE m
         IN IF a > C[i].to THEN a ELSE C[i].to

\* variant: a contact without residual is left out of the index
RECURSIVE IdxsFrom_skip_spent(_, _, _)
IdxsFrom_skip_spent(C, node, i) ==
    IF i > Len(C) THEN << >>
    ELSE IF C[i].from = node /\ C[i].residual_bytes > 0
         THEN << i >> \o IdxsFrom_skip_spent(C, node, i + 1)
         ELSE IdxsFrom_skip_spent(C, node, i + 1)

RECURSIVE IdxsFrom(_, _, _)
IdxsFrom(C, node, i) ==
    IF i > Len(C) THEN << >>
    ELSE IF C[i].from = node THEN << i >> \o IdxsFrom(C, node, i + 1)
         ELSE IdxsFrom(C, node, i + 1)

\* NULL (no index) for an empty plan is node_cap = 0.
build_neighbor_index(C) ==
    IF Len(C) <= 0 THEN [node_cap |-> 0, by_from |-> << >>]
    ELSE LET cap == MaxNodeOf(C, 1) + 1
         IN [node_cap |-> cap,
             by_from |-> [n \in 0..(cap - 1) |-> IdxsFrom(C, n, 1)]]

\* ------------------------------------------------------------ filters (4.D)
NoFilter == [present |-> FALSE, banned_ids |-> << >>,
             forced_prefix_ids |-> << >>, forced_count |-> 0]

is_banned_id(id, F) ==
    /\ F.present
    /\ Len(F.banned_ids) > 0
    /\ \E i \in 1..Len(F.banned_ids) : F.banned_ids[i] = id

HasForced(F) == F.present /\ Len(F.forced_prefix_ids) > 0 /\ F.forced_count > 0

\* k is the 0-based position of the C code.
forced_id_at(F, k) ==
    IF ~HasForced(F) THEN -1
    ELSE IF k < 0 \/ k >= F.forced_count THEN -1
    ELSE F.forced_prefix_ids[k + 1]

\* ids of the chain root -> ci, following prev_idx
RECURSIVE ChainIdx(_, _)
ChainIdx(lab, ci) ==
    IF ci = -1 THEN << >>
    ELSE Append(ChainIdx(lab, lab[ci].prev_idx), ci)

RECURSIVE MatchLen(_, _, _)
MatchLen(seq, F, matched) ==
    IF matched < F.forced_count /\ matched < Len(seq)
       /\ seq[matched + 1] = F.forced_prefix_ids[matched + 1]
    THEN MatchLen(seq, F, matched + 1)
    ELSE matched

\* variant: the prefix counts as complete once the first forced contact is in
compute_prefix_done_after_seed(ci, lab, C, F) ==
    IF ~HasForced(F) THEN 0 ELSE F.forced_count

compute_prefix_done(ci, lab, C, F) ==
    IF ~HasForced(F) THEN 0
    ELSE LET chain == ChainIdx(lab, ci)
             seq == [k \in 1..Len(chain) |-> C[chain[k]].id]
         IN MatchLen(seq, F, 0)

\* ------------------------------------------- feasibility and ETA (4.C)
EffRate(c) == IF c.rate_bps > RATE_FLOOR THEN c.rate_bps ELSE RATE_FLOOR

\* variant: transmission starts at arrival even before the window opens
StartTx_no_wait(c, t_in) == t_in

StartTx(c, t_in) == IF t_in < c.t_start THEN c.t_start ELSE t_in

available_bytes_window(c, t_in) ==
    IF t_in > c.t_end + EPS_TIME THEN 0
    ELSE LET window == c.t_end - StartTx(c, t_in) - c.setup_s
         IN IF window <= EPS_TIME THEN 0 ELSE window * EffRate(c)

contact_is_viable(c, t_arrival, bundle_bytes) ==
    IF t_arrival > c.t_end + EPS_TIME THEN FALSE
    ELSE LET start_tx == StartTx(c, t_arrival)
             window == c.t_end - start_tx - c.setup_s
             rate == EffRate(c)
             cap_window == window * rate
             cap_actual == IF c.residual_bytes < cap_window
                           THEN c.residual_bytes ELSE cap_window
             tx_time == bundle_bytes \div rate
             finish == start_tx + c.setup_s + tx_time
         IN IF window <= EPS_TIME THEN FALSE
            ELSE IF cap_actual + EPS_BYTES < bundle_bytes THEN FALSE
            ELSE IF finish > c.t_end + EPS_TIME THEN FALSE
            ELSE TRUE

\* variant: a transmission that ends exactly at t_end no longer fits
eta_contact_strict_end(c, t_in, bundle_bytes, expiry_abs) ==
    IF t_in > c.t_end + EPS_TIME THEN DBL_MAX
    ELSE LET avail == available_bytes_window(c, t_in)
             cap == IF c.residual_bytes < avail THEN c.residual_bytes ELSE avail
             start_tx == StartTx(c, t_in)
             rate == EffRate(c)
             tx_time == bundle_bytes \div rate
             finish == start_tx + c.setup_s + tx_time
             eta == finish + c.owlt
         IN IF cap + EPS_BYTES < bundle_bytes THEN DBL_MAX
            ELSE IF finish >= c.t_end THEN DBL_MAX
            ELSE IF expiry_abs > 0 /\ eta > expiry_abs + EPS_TIME THEN DBL_MAX
            ELSE eta

eta_contact(c, t_in, bundle_bytes, expiry_abs) ==
    IF t_in > c.t_end + EPS_TIME THEN DBL_MAX
    ELSE LET avail == available_bytes_window(c, t_in)
             cap == IF c.residual_bytes < avail THEN c.residual_bytes ELSE avail
             start_tx == StartTx(c, t_in)
             rate == EffRate(c)
             tx_time == bundle_bytes \div rate
             finish == start_tx + c.setup_s + tx_time
             eta == finish + c.owlt
         IN IF cap + EPS_BYTES < bundle_bytes THEN DBL_MAX
            ELSE IF finish > c.t_end + EPS_TIME THEN DBL_MAX
            ELSE IF expiry_abs > 0 /\ eta > expiry_abs + EPS_TIME THEN DBL_MAX
            ELSE eta

ExpiryAbs(P) == IF P.expiry > 0 THEN P.t0 + P.expiry ELSE 0

\* ------------------------------------------------- min-priority queue (4.A)
\* variant: the comparison with its sign reversed
cmp_reversed(a, b) == IF a.eta < b.eta THEN 1 ELSE IF a.eta > b.eta THEN -1 ELSE 0

cmp(a, b) == IF a.eta < b.eta THEN -1 ELSE IF a.eta > b.eta THEN 1 ELSE 0

SwapAt(h, i, j) == [h EXCEPT ![i] = h[j], ![j] = h[i]]

\* i is a 1-based position; the parent of 0-based i0 is (i0-1)/2.
RECURSIVE UpHeap(_, _)
UpHeap(h, i) ==
    IF i <= 1 THEN h
    ELSE LET p == ((i - 2) \div 2) + 1
         IN IF cmp(h[i], h[p]) >= 0 THEN h
            ELSE UpHeap(SwapAt(h, i, p), p)

\* variant: the new label is put at the root without any sift
heap_push_front(h, v) == << v >> \o h

heap_push(h, v) == UpHeap(Append(h, v), Len(h) + 1)

\* variant: the down-heap pass never looks at the right child
RECURSIVE DownHeap_left_only(_, _)
DownHeap_left_only(h, i) ==
    LET l == 2 * i
        m == IF l <= Len(h) /\ cmp(h[l], h[i]) < 0 THEN l ELSE i
    IN IF m = i THEN h ELSE DownHeap_left_only(SwapAt(h, i, m), m)

RECURSIVE DownHeap(_, _)
DownHeap(h, i) ==
    LET l == 2 * i
        r == 2 * i + 1
        m1 == IF l <= Len(h) /\ cmp(h[l], h[i]) < 0 THEN l ELSE i
        m == IF r <= Len(h) /\ cmp(h[r], h[m1]) < 0 THEN r ELSE m1
    IN IF m = i THEN h ELSE DownHeap(SwapAt(h, i, m), m)

\* heap_pop on a non-empty heap: the returned label
HeapTop(h) == h[1]

\* variant: heap_pop without the down-heap pass
HeapRest_no_sift(h) ==
    IF Len(h) = 1 THEN << >>
    ELSE [SubSeq(h, 1, Len(h) - 1) EXCEPT ![1] = h[Len(h)]]

\* heap_pop on a non-empty heap: the heap left
HeapRest(h) ==
    IF Len(h) = 1 THEN << >>
    ELSE DownHeap([SubSeq(h, 1, Len(h) - 1) EXCEPT ![1] = h[Len(h)]], 1)

heap_empty(h) == Len(h) = 0

\* ------------------------------------- time-dependent shortest path (4.D)
NotFound == [found |-> FALSE, eta |-> DBL_MAX, hops |-> 0, contact_ids |-> << >>]

InitLabels(N) == [i \in 1..N |-> [eta |-> DBL_MAX, prev_idx |-> -1]]

ValidRequest(C, P, NI) ==
    /\ Len(C) > 0
    /\ NI.node_cap > 0
    /\ P.src_node >= 0 /\ P.src_node < NI.node_cap
    /\ P.dst_node >= 0 /\ P.dst_node < NI.node_cap

\* variant: forced seeding that does not require the contact to leave src_node
SeedForcedOk_any_origin(C, P, F, ci) ==
    /\ C[ci].id = forced_id_at(F, 0)
    /\ ~is_banned_id(C[ci].id, F)
    /\ contact_is_viable(C[ci], P.t0, P.bundle_bytes)
    /\ eta_contact(C[ci], P.t0, P.bundle_bytes, ExpiryAbs(P)) # DBL_MAX

\* forced-prefix seeding: the first contact (by index) that passes every test
SeedForcedOk(C, P, F, ci) ==
    /\ C[ci].id = forced_id_at(F, 0)
    /\ C[ci].from = P.src_node
    /\ ~is_banned_id(C[ci].id, F)
    /\ contact_is_viable(C[ci], P.t0, P.bundle_bytes)
    /\ eta_contact(C[ci], P.t0, P.bundle_bytes, ExpiryAbs(P)) # DBL_MAX

SeedForced(C, P, F) ==
    LET ok == {ci \in 1..Len(C) : SeedForcedOk(C, P, F, ci)}
        lab0 == InitLabels(Len(C))
    IN IF ok = {} THEN [lab |-> lab0, pq |-> << >>]
       ELSE LET ci == CHOOSE x \in ok : \A y \in ok : x <= y
                eta == eta_contact(C[ci], P.t0, P.bundle_bytes, ExpiryAbs(P))
            IN [lab |-> [lab0 EXCEPT ![ci] = [eta |-> eta, prev_idx |-> -1]],
                pq |-> heap_push(<< >>, [contact_idx |-> ci, eta |-> eta, prev_idx |-> -1])]

\* variant: seeding that does not look at the residual capacity
RECURSIVE SeedNormal_no_residual(_, _, _, _, _, _)
SeedNormal_no_residual(C, P, F, L, k, st) ==
    IF k > Len(L) THEN st
    ELSE LET ci == L[k]
             c == [C[ci] EXCEPT !.residual_bytes = DBL_MAX]
             eta == eta_contact(c, P.t0, P.bundle_bytes, ExpiryAbs(P))
         IN IF is_banned_id(C[ci].id, F)
               \/ ~contact_is_viable(c, P.t0, P.bundle_bytes)
               \/ eta = DBL_MAX
               \/ ~(eta < st.lab[ci].eta)
            THEN SeedNormal_no_residual(C, P, F, L, k + 1, st)
            ELSE SeedNormal_no_residual(C, P, F, L, k + 1,
                    [lab |-> [st.lab EXCEPT ![ci] = [eta |-> eta, prev_idx |-> -1]],
                     pq |-> heap_push(st.pq, [contact_idx |-> ci, eta |-> eta,
                                              prev_idx |-> -1])])

\* normal seeding: every contact of by_from[src_node], in index order
RECURSIVE SeedNormal(_, _, _, _, _, _)
SeedNormal(C, P, F, L, k, st) ==
    IF k > Len(L) THEN st
    ELSE LET ci == L[k]
             eta == eta_contact(C[ci], P.t0, P.bundle_bytes, ExpiryAbs(P))
         IN IF is_banned_id(C[ci].id, F) THEN SeedNormal(C, P, F, L, k + 1, st)
            ELSE IF ~contact_is_viable(C[ci], P.t0, P.bundle_bytes)
                 THEN SeedNormal(C, P, F, L, k + 1, st)
            ELSE IF eta = DBL_MAX THEN SeedNormal(C, P, F, L, k + 1, st)
            ELSE IF eta < st.lab[ci].eta
                 THEN SeedNormal(C, P, F, L, k + 1,
                        [lab |-> [st.lab EXCEPT ![ci] = [eta |-> eta, prev_idx |-> -1]],
                         pq |-> heap_push(st.pq, [contact_idx |-> ci, eta |-> eta,
                                                  prev_idx |-> -1])])
            ELSE SeedNormal(C, P, F, L, k + 1, st)

Seed(C, P, NI, F) ==
    IF HasForced(F) THEN SeedForced(C, P, F)
    ELSE SeedNormal(C, P, F, NI.by_from[P.src_node], 1,
                    [lab |-> InitLabels(Len(C)), pq |-> << >>])

\* variant: expansion that enters the next contact at t0 instead of eta_here
RECURSIVE Relax_from_t0(_, _, _, _, _, _, _, _, _)
Relax_from_t0(C, P, F, L, kk, ci, eta_here, need_forced_next, st) ==
    IF kk > Len(L) THEN st
    ELSE LET nj == L[kk]
             eta_n == eta_contact(C[nj], P.t0, P.bundle_bytes, ExpiryAbs(P))
             skip == \/ (need_forced_next # -1 /\ C[nj].id # need_forced_next)
                     \/ is_banned_id(C[nj].id, F)
                     \/ ~contact_is_viable(C[nj], P.t0, P.bundle_bytes)
                     \/ eta_n = DBL_MAX
         IN IF skip
            THEN Relax_from_t0(C, P, F, L, kk + 1, ci, eta_here, need_forced_next, st)
            ELSE IF eta_n + EPS_TIME < st.lab[nj].eta
                 THEN Relax_from_t0(C, P, F, L, kk + 1, ci, eta_here, need_forced_next,
                        [lab |-> [st.lab EXCEPT ![nj] = [eta |-> eta_n, prev_idx |-> ci]],
                         pq |-> heap_push(st.pq, [contact_idx |-> nj, eta |-> eta_n,
                                                  prev_idx |-> ci])])
            ELSE Relax_from_t0(C, P, F, L, kk + 1, ci, eta_here, need_forced_next, st)

\* variant: expansion that does not test the ban list
RECURSIVE Relax_ignore_ban(_, _, _, _, _, _, _, _, _)
Relax_ignore_ban(C, P, F, L, kk, ci, eta_here, need_forced_next, st) ==
    IF kk > Len(L) THEN st
    ELSE LET nj == L[kk]
             eta_n == eta_contact(C[nj], eta_here, P.bundle_bytes, ExpiryAbs(P))
             skip == \/ (need_forced_next # -1 /\ C[nj].id # need_forced_next)
                     \/ ~contact_is_viable(C[nj], eta_here, P.bundle_bytes)
                     \/ eta_n = DBL_MAX
         IN IF skip
            THEN Relax_ignore_ban(C, P, F, L, kk + 1, ci, eta_here, need_forced_next, st)
            ELSE IF eta_n + EPS_TIME < st.lab[nj].eta
                 THEN Relax_ignore_ban(C, P, F, L, kk + 1, ci, eta_here, need_forced_next,
                        [lab |-> [st.lab EXCEPT ![nj] = [eta |-> eta_n, prev_idx |-> ci]],
                         pq |-> heap_push(st.pq, [contact_idx |-> nj, eta |-> eta_n,
                                                  prev_idx |-> ci])])
            ELSE Relax_ignore_ban(C, P, F, L, kk + 1, ci, eta_here, need_forced_next, st)

\* variant: expansion that also stores and pushes a label of equal ETA
RECURSIVE Relax_push_on_tie(_, _, _, _, _, _, _, _, _)
Relax_push_on_tie(C, P, F, L, kk, ci, eta_here, need_forced_next, st) ==
    IF kk > Len(L) THEN st
    ELSE LET nj == L[kk]
             eta_n == eta_contact(C[nj], eta_here, P.bundle_bytes, ExpiryAbs(P))
             skip == \/ (need_forced_next # -1 /\ C[nj].id # need_forced_next)
                     \/ is_banned_id(C[nj].id, F)
                     \/ ~contact_is_viable(C[nj], eta_here, P.bundle_bytes)
                     \/ eta_n = DBL_MAX
         IN IF skip
            THEN Relax_push_on_tie(C, P, F, L, kk + 1, ci, eta_here, need_forced_next, st)
            ELSE IF eta_n <= st.lab[nj].eta
                 THEN Relax_push_on_tie(C, P, F, L, kk + 1, ci, eta_here, need_forced_next,
                        [lab |-> [st.lab EXCEPT ![nj] = [eta |-> eta_n, prev_idx |-> ci]],
                         pq |-> heap_push(st.pq, [contact_idx |-> nj, eta |-> eta_n,
                                                  prev_idx |-> ci])])
            ELSE Relax_push_on_tie(C, P, F, L, kk + 1, ci, eta_here, need_forced_next, st)

\* variant: expansion that stores the contact itself as its predecessor
RECURSIVE Relax_prev_self(_, _, _, _, _, _, _, _, _)
Relax_prev_self(C, P, F, L, kk, ci, eta_here, need_forced_next, st) ==
    IF kk > Len(L) THEN st
    ELSE LET nj == L[kk]
             eta_n == eta_contact(C[nj], eta_here, P.bundle_bytes, ExpiryAbs(P))
             skip == \/ (need_forced_next # -1 /\ C[nj].id # need_forced_next)
                     \/ is_banned_id(C[nj].id, F)
                     \/ ~contact_is_viable(C[nj], eta_here, P.bundle_bytes)
                     \/ eta_n = DBL_MAX
         IN IF skip
            THEN Relax_prev_self(C, P, F, L, kk + 1, ci, eta_here, need_forced_next, st)
            ELSE IF eta_n + EPS_TIME < st.lab[nj].eta
                 THEN Relax_prev_self(C, P, F, L, kk + 1, ci, eta_here, need_forced_next,
                        [lab |-> [st.lab EXCEPT ![nj] = [eta |-> eta_n, prev_idx |-> nj]],
                         pq |-> heap_push(st.pq, [contact_idx |-> nj, eta |-> eta_n,
                                                  prev_idx |-> nj])])
            ELSE Relax_prev_self(C, P, F, L, kk + 1, ci, eta_here, need_forced_next, st)

\* expansion of the popped contact ci (arrival eta_here) over the list L
RECURSIVE Relax(_, _, _, _, _, _, _, _, _)
Relax(C, P, F, L, kk, ci, eta_here, need_forced_next, st) ==
    IF kk > Len(L) THEN st
    ELSE LET nj == L[kk]
             eta_n == eta_contact(C[nj], eta_here, P.bundle_bytes, ExpiryAbs(P))
             skip == \/ (need_forced_next # -1 /\ C[nj].id # need_forced_next)
                     \/ is_banned_id(C[nj].id, F)
                     \/ ~contact_is_viable(C[nj], eta_here, P.bundle_bytes)
                     \/ eta_n = DBL_MAX
         IN IF skip THEN Relax(C, P, F, L, kk + 1, ci, eta_here, need_forced_next, st)
            ELSE IF eta_n + EPS_TIME < st.lab[nj].eta
                 THEN Relax(C, P, F, L, kk + 1, ci, eta_here, need_forced_next,
                        [lab |-> [st.lab EXCEPT ![nj] = [eta |-> eta_n, prev_idx |-> ci]],
                         pq |-> heap_push(st.pq, [contact_idx |-> nj, eta |-> eta_n,
                                                  prev_idx |-> ci])])
            ELSE Relax(C, P, F, L, kk + 1, ci, eta_here, need_forced_next, st)

\* One iteration of the main loop.  s = [lab, pq, best_end, best_eta].
PopStep(C, P, NI, F, s) ==
    LET cur == HeapTop(s.pq)
        rest == HeapRest(s.pq)
        ci == cur.contact_idx
        eta_here == cur.eta
        prefix_done == compute_prefix_done(ci, s.lab, C, F)
        next_node == C[ci].to
        need == IF HasForced(F) /\ prefix_done < F.forced_count
                THEN forced_id_at(F, prefix_done) ELSE -1
    IN IF eta_here > s.lab[ci].eta + EPS_TIME
       THEN [s EXCEPT !.pq = rest]
       ELSE IF C[ci].to = P.dst_node
               /\ (~HasForced(F) \/ prefix_done >= F.forced_count)
       THEN [s EXCEPT !.pq = rest, !.best_end = ci, !.best_eta = eta_here]
       ELSE IF next_node < 0 \/ next_node >= NI.node_cap
       THEN [s EXCEPT !.pq = rest]
       ELSE LET st == Relax(C, P, F, NI.by_from[next_node], 1, ci, eta_here, need,
                            [lab |-> s.lab, pq |-> rest])
            IN [s EXCEPT !.lab = st.lab, !.pq = st.pq]

SearchStart(C, P, NI, F) ==
    LET st == Seed(C, P, NI, F)
    IN [lab |-> st.lab, pq |-> st.pq, best_end |-> -1, best_eta |-> DBL_MAX]

LoopDone(s) == heap_empty(s.pq) \/ s.best_end # -1

RECURSIVE RunLoop(_, _, _, _, _)
RunLoop(C, P, NI, F, s) ==
    IF LoopDone(s) THEN s ELSE RunLoop(C, P, NI, F, PopStep(C, P, NI, F, s))

\* variant: the back-tracked chain is returned leaf first, not reversed
Reconstruct_not_reversed(C, st) ==
    IF st.best_end = -1 THEN NotFound
    ELSE LET chain == ChainIdx(st.lab, st.best_end)
             n == Len(chain)
         IN [found |-> TRUE, eta |-> st.best_eta, hops |-> n,
             contact_ids |-> [j \in 1..n |-> C[chain[n + 1 - j]].id]]

\* back-tracking from best_end, reversed to root-first order, mapped to ids
Reconstruct(C, s) ==
    IF s.best_end = -1 THEN NotFound
    ELSE LET chain == ChainIdx(s.lab, s.best_end)
         IN [found |-> TRUE, eta |-> s.best_eta, hops |-> Len(chain),
             contact_ids |-> [k \in 1..Len(chain) |-> C[chain[k]].id]]

cgr_best_route_filtered(C, P, NI, F) ==
    IF ~ValidRequest(C, P, NI) THEN NotFound
    ELSE Reconstruct(C, RunLoop(C, P, NI, F, SearchStart(C, P, NI, F)))

cgr_best_route(C, P, NI) == cgr_best_route_filtered(C, P, NI, NoFilter)

\* --------------------------------------- K routes by consumption (4.E)
\* index of the first contact with this id, 0 if none
FirstWithId(C, id) ==
    LET hit == {i \in 1..Len(C) : C[i].id = id}
    IN IF hit = {} THEN 0 ELSE CHOOSE x \in hit : \A y \in hit : x <= y

\* variant: the decrement is computed but not stored
ConsumeOne_not_stored(C, id, bytes) == C

\* variant: the decrement is not floored at 0
ConsumeOne_no_floor(C, id, bytes) ==
    LET i == FirstWithId(C, id)
    IN IF i = 0 THEN C
       ELSE [C EXCEPT ![i].residual_bytes = C[i].residual_bytes - bytes]

ConsumeOne(C, id, bytes) ==
    LET i == FirstWithId(C, id)
    IN IF i = 0 THEN C
       ELSE IF C[i].residual_bytes >= bytes
            THEN [C EXCEPT ![i].residual_bytes = C[i].residual_bytes - bytes]
            ELSE [C EXCEPT ![i].residual_bytes = 0]

\* variant: only the first hop of the route is charged
ConsumeFrom_first_hop(C, route, P, step) ==
    IF step > 1 THEN C
    ELSE ConsumeOne(C, route.contact_ids[step], P.bundle_bytes)

RECURSIVE ConsumeFrom(_, _, _, _)
ConsumeFrom(C, route, P, step) ==
    IF step > route.hops THEN C
    ELSE ConsumeFrom(ConsumeOne(C, route.contact_ids[step], P.bundle_bytes),
                     route, P, step + 1)

consume_capacity(C, route, P) ==
    IF ~route.found \/ route.hops <= 0 THEN C ELSE ConsumeFrom(C, route, P, 1)

\* ------------------------------ K routes by diversification (4.F)
\* variant: the candidate is compared with the last route only
route_exists_last_only(rs, candidate) ==
    /\ Len(rs) > 0
    /\ rs[Len(rs)].hops = candidate.hops
    /\ \A j \in 1..candidate.hops :
          rs[Len(rs)].contact_ids[j] = candidate.contact_ids[j]

route_already_exists(rs, candidate) ==
    \E i \in 1..Len(rs) :
        /\ rs[i].hops = candidate.hops
        /\ \A j \in 1..rs[i].hops : rs[i].contact_ids[j] = candidate.contact_ids[j]

\* variant: the detour keeps the prefix but bans nothing
YenFilter_no_ban(ref, i) ==
    [present |-> TRUE, banned_ids |-> << >>,
     forced_prefix_ids |-> ref.contact_ids, forced_count |-> i]

\* the filter of the detour at 0-based position i of route ref
YenFilter(ref, i) ==
    [present |-> TRUE, banned_ids |-> << ref.contact_ids[i + 1] >>,
     forced_prefix_ids |-> ref.contact_ids, forced_count |-> i]

\* one detour attempt: acc = [best, best_eta]
YenTry(C, P, NI, out, ref, i, acc) ==
    LET cand == cgr_best_route_filtered(C, P, NI, YenFilter(ref, i))
    IN IF ~cand.found THEN acc
       ELSE IF route_already_exists(out, cand) THEN acc
       ELSE IF cand.eta < acc.best_eta THEN [best |-> cand, best_eta |-> cand.eta]
       ELSE acc

RECURSIVE YenScan(_, _, _, _, _, _, _)
YenScan(C, P, NI, out, route_idx, i, acc) ==
    IF route_idx > Len(out) THEN acc
    ELSE IF i >= out[route_idx].hops THEN YenScan(C, P, NI, out, route_idx + 1, 0, acc)
    ELSE YenScan(C, P, NI, out, route_idx, i + 1,
                 YenTry(C, P, NI, out, out[route_idx], i, acc))

\* number of detour searches one round runs: one per position of every route
\* of the list
RECURSIVE YenScanCount(_, _, _)
YenScanCount(out, route_idx, i) ==
    IF route_idx > Len(out) THEN 0
    ELSE IF i >= out[route_idx].hops THEN YenScanCount(out, route_idx + 1, 0)
    ELSE 1 + YenScanCount(out, route_idx, i + 1)

\* one round of the while loop: the best new alternative, NotFound if none
YenRoundBest(C, P, NI, out) ==
    YenScan(C, P, NI, out, 1, 0, [best |-> NotFound, best_eta |-> DBL_MAX]).best

\* ------------------------------------------------------------------ state
VARIABLES
    plan,     \* the caller-owned contact array C / C_in
    NI,       \* the neighbour index the caller built from the plan
    P,        \* the request (CgrParams)
    op,       \* the API call in progress or just returned
    pc,       \* position inside that call
    F,        \* the filter set of the single-route search
    s,        \* labels, queue, best_end, best_eta of the single-route search
    R,        \* the Route returned by the single-route search
    W,        \* cgr_k_routes' private working copy of the plan
    RS,       \* the Routes list of the K variants
    K,        \* the K argument of the K variants
    k,        \* loop counter: k of cgr_k_routes, attempts of cgr_k_yen
    calls,    \* number of API calls started
    pops,     \* history: ETAs returned by heap_pop in the current search
    prev,     \* history: what the previous call returned
    nsearch,  \* history: searches (cgr_best_route_filtered) run by this call
    mem,      \* allocations of one search, followed one malloc at a time
    live,     \* the live simulation loop (cgr_live's main)
    cli,      \* the command-line planner (cgr's main)
    scan,     \* one round of cgr_k_yen followed one detour search at a time
    api,      \* the planning cycles over fetched contacts (cgr_api's main)
    ev        \* calls of one function on their own (4.C arithmetic, the heap)

vars == << plan, NI, P, op, pc, F, s, R, W, RS, K, k, calls, pops, prev,
           nsearch, mem, live, cli, scan, api, ev >>

\* the routing kernel's own state
kernelVars == << plan, NI, P, op, pc, F, s, R, W, RS, K, k, calls, pops, prev,
                nsearch >>

\* state of the other components, untouched by the kernel's actions
MemIdle == [pc |-> "idle"]
LiveIdle == [pc |-> "off"]
CliIdle == [pc |-> "off"]
ScanIdle == [route_idx |-> -1, i |-> 0, best |-> NotFound, best_eta |-> DBL_MAX]
ApiIdle == [pc |-> "off"]
EvIdle == [pc |-> "off"]
auxVars == << mem, live, cli, scan, api, ev >>
AuxIdle ==
    /\ mem = MemIdle /\ live = LiveIdle /\ cli = CliIdle /\ scan = ScanIdle
    /\ api = ApiIdle /\ ev = EvIdle
memFrame == << kernelVars, live, cli, scan, api, ev >>

\* ------------------------------------------------------------ input domain
ContactId(i) == 10 * i

Edges == { <<0, 1>>, <<1, 2>>, <<0, 2>>, <<1, 0>> }

\* window, rate, setup, propagation and residual of a contact
Profiles ==
    { [t_start |-> 0, t_end |-> 20000, rate_bps |-> 2, setup_s |-> 0,
       owlt |-> 1000, residual_bytes |-> 4000],
      [t_start |-> 3000, t_end |-> 20000, rate_bps |-> 1, setup_s |-> 1000,
       owlt |-> 0, residual_bytes |-> 1000],
      [t_start |-> 0, t_end |-> 2999, rate_bps |-> 2, setup_s |-> 0,
       owlt |-> 0, residual_bytes |-> 4000] }

MkContact(i, e, pr) ==
    [id |-> ContactId(i), from |-> e[1], to |-> e[2],
     t_start |-> pr.t_start, t_end |-> pr.t_end, owlt |-> pr.owlt,
     rate_bps |-> pr.rate_bps, setup_s |-> pr.setup_s,
     residual_bytes |-> pr.residual_bytes]

Plans ==
    UNION { { [i \in 1..n |-> MkContact(i, es[i], ps[i])] :
              es \in [1..n -> Edges], ps \in [1..n -> Profiles] } :
            n \in 1..MaxContacts }

Requests ==
    [src_node : {0}, dst_node : {2}, t0 : {-4000, 0},
     bundle_bytes : {2000, 4000}, expiry : {0, 4000}]

ValidPlan(C) ==
    /\ \A i, j \in 1..Len(C) : C[i].id = C[j].id => i = j
    /\ \A i \in 1..Len(C) :
         /\ C[i].t_end > C[i].t_start
         /\ C[i].setup_s >= 0 /\ C[i].owlt >= 0
         /\ C[i].residual_bytes >= 0 /\ C[i].rate_bps > 0

\* filters a caller may pass to cgr_best_route_filtered
Ban1(id) == [present |-> TRUE, banned_ids |-> << id >>,
             forced_prefix_ids |-> << >>, forced_count |-> 0]
Force1(id) == [present |-> TRUE, banned_ids |-> << >>,
               forced_prefix_ids |-> << id >>, forced_count |-> 1]
FilterChoices(C) ==
    {NoFilter} \cup {Ban1(C[i].id) : i \in 1..Len(C)}
               \cup {Force1(C[i].id) : i \in 1..Len(C)}

IdleSearch == [lab |-> << >>, pq |-> << >>, best_end |-> -1, best_eta |-> DBL_MAX]
NoPrev == [op |-> "none", R |-> NotFound, RS |-> << >>]

Init ==
    /\ plan \in Plans
    /\ P \in Requests
    /\ NI = build_neighbor_index(plan)
    /\ op = "none" /\ pc = "idle"
    /\ F = NoFilter
    /\ s = IdleSearch
    /\ R = NotFound
    /\ W = << >>
    /\ RS = << >>
    /\ K = 0 /\ k = 0
    /\ calls = 0
    /\ pops = << >>
    /\ prev = NoPrev
    /\ nsearch = 0
    /\ AuxIdle

\* A call starts on a fresh program or, for the base search, after another
\* call has returned.
CanCall(first) ==
    \/ pc = "idle"
    \/ pc = "done" /\ ~first /\ calls < MaxCalls

Enter(o) ==
    /\ op' = o
    /\ calls' = calls + 1
    /\ prev' = IF pc = "done" THEN [op |-> op, R |-> R, RS |-> RS] ELSE prev

\* variant: entry that seeds on the labels the previous search left behind
BestRouteBegin_stale_labels(f) ==
    /\ CanCall(f # NoFilter)
    /\ Enter(IF f = NoFilter THEN "best" ELSE "filtered")
    /\ F' = f
    /\ pops' = << >>
    /\ IF ValidRequest(plan, P, NI)
       THEN /\ s' = IF HasForced(f) \/ s.lab = << >>
                    THEN SearchStart(plan, P, NI, f)
                    ELSE LET st == SeedNormal(plan, P, f, NI.by_from[P.src_node], 1,
                                              [lab |-> s.lab, pq |-> << >>])
                         IN [lab |-> st.lab, pq |-> st.pq,
                             best_end |-> -1, best_eta |-> DBL_MAX]
            /\ pc' = "loop"
            /\ R' = R
       ELSE /\ s' = s
            /\ pc' = "done"
            /\ R' = NotFound
    /\ nsearch' = 1
    /\ UNCHANGED << plan, NI, P, W, RS, K, k >>
    /\ UNCHANGED auxVars

\* ------------------------------ cgr_best_route / cgr_best_route_filtered
\* entry: validation, label reset, queue creation and seeding
BestRouteBegin(f) ==
    /\ CanCall(f # NoFilter)
    /\ Enter(IF f = NoFilter THEN "best" ELSE "filtered")
    /\ F' = f
    /\ pops' = << >>
    /\ IF ValidRequest(plan, P, NI)
       THEN /\ s' = SearchStart(plan, P, NI, f)
            /\ pc' = "loop"
            /\ R' = R
       ELSE /\ s' = s
            /\ pc' = "done"
            /\ R' = NotFound
    /\ nsearch' = 1
    /\ UNCHANGED << plan, NI, P, W, RS, K, k >>
    /\ UNCHANGED auxVars

\* one iteration of the Dijkstra loop
BestRoutePop ==
    /\ pc = "loop"
    /\ ~LoopDone(s)
    /\ s' = PopStep(plan, P, NI, F, s)
    /\ pops' = Append(pops, HeapTop(s.pq).eta)
    /\ UNCHANGED << plan, NI, P, op, pc, F, R, W, RS, K, k, calls, prev, nsearch >>
    /\ UNCHANGED auxVars

\* loop exit: queue released, route reconstructed (or not found), return
BestRouteReturn ==
    /\ pc = "loop"
    /\ LoopDone(s)
    /\ R' = Reconstruct(plan, s)
    /\ pc' = "done"
    /\ UNCHANGED << plan, NI, P, op, F, s, W, RS, K, k, calls, pops, prev, nsearch >>
    /\ UNCHANGED auxVars

\* ------------------------------------------------------------ cgr_k_routes
\* entry: without an index (empty plan) the empty list is returned at once;
\* otherwise the working copy is made
KRoutesBegin(Kp) ==
    /\ CanCall(TRUE)
    /\ Enter("k_routes")
    /\ K' = Kp
    /\ k' = 0
    /\ RS' = << >>
    /\ IF Kp <= 0 \/ NI.node_cap = 0
       THEN W' = W /\ pc' = "done"
       ELSE W' = plan /\ pc' = "kr"
    /\ nsearch' = 0
    /\ UNCHANGED << plan, NI, P, F, s, R, pops >>
    /\ UNCHANGED auxVars

\* variant: the loop searches and charges the caller's array
KRoutesIter_on_plan ==
    /\ pc = "kr"
    /\ k < K
    /\ LET r == cgr_best_route(plan, P, NI)
       IN IF ~r.found
          THEN /\ pc' = "done"
               /\ UNCHANGED << RS, plan, k >>
          ELSE /\ RS' = Append(RS, r)
               /\ plan' = consume_capacity(plan, r, P)
               /\ k' = k + 1
               /\ pc' = pc
    /\ nsearch' = nsearch + 1
    /\ UNCHANGED << W, NI, P, op, F, s, R, K, calls, pops, prev >>
    /\ UNCHANGED auxVars

\* variant: a found route is put at the head of the list
KRoutesIter_prepend ==
    /\ pc = "kr"
    /\ k < K
    /\ LET r == cgr_best_route(W, P, NI)
       IN IF ~r.found
          THEN /\ pc' = "done"
               /\ UNCHANGED << RS, W, k >>
          ELSE /\ RS' = << r >> \o RS
               /\ W' = consume_capacity(W, r, P)
               /\ k' = k + 1
               /\ pc' = pc
    /\ nsearch' = nsearch + 1
    /\ UNCHANGED << plan, NI, P, op, F, s, R, K, calls, pops, prev >>
    /\ UNCHANGED auxVars

\* variant: a failed search does not end the loop
KRoutesIter_no_break ==
    /\ pc = "kr"
    /\ k < K
    /\ LET r == cgr_best_route(W, P, NI)
       IN IF ~r.found
          THEN /\ k' = k + 1
               /\ pc' = pc
               /\ UNCHANGED << RS, W >>
          ELSE /\ RS' = Append(RS, r)
               /\ W' = consume_capacity(W, r, P)
               /\ k' = k + 1
               /\ pc' = pc
    /\ nsearch' = nsearch + 1
    /\ UNCHANGED << plan, NI, P, op, F, s, R, K, calls, pops, prev >>
    /\ UNCHANGED auxVars

\* one iteration of the for loop; a failed search breaks out and returns
KRoutesIter ==
    /\ pc = "kr"
    /\ k < K
    /\ LET r == cgr_best_route(W, P, NI)
       IN IF ~r.found
          THEN /\ pc' = "done"
               /\ UNCHANGED << RS, W, k >>
          ELSE /\ RS' = Append(RS, r)
               /\ W' = consume_capacity(W, r, P)
               /\ k' = k + 1
               /\ pc' = pc
    /\ nsearch' = nsearch + 1
    /\ UNCHANGED << plan, NI, P, op, F, s, R, K, calls, pops, prev >>
    /\ UNCHANGED auxVars

KRoutesReturn ==
    /\ pc = "kr"
    /\ k >= K
    /\ pc' = "done"
    /\ UNCHANGED << plan, NI, P, op, F, s, R, W, RS, K, k, calls, pops, prev, nsearch >>
    /\ UNCHANGED auxVars

\* --------------------------------------------------------------- cgr_k_yen
\* variant: the base route is appended before its found flag is tested
KYenBegin_append_unchecked(Kp) ==
    /\ CanCall(TRUE)
    /\ Enter("k_yen")
    /\ K' = Kp
    /\ k' = 0
    /\ LET base == cgr_best_route_filtered(plan, P, NI, NoFilter)
       IN /\ RS' = << base >>
          /\ pc' = IF base.found THEN "yen" ELSE "done"
    /\ nsearch' = 1
    /\ UNCHANGED << plan, NI, P, F, s, R, W, pops >>
    /\ UNCHANGED auxVars

\* entry: without an index (empty plan) the empty list is returned at once;
\* otherwise the base route is searched
KYenBegin(Kp) ==
    /\ CanCall(TRUE)
    /\ Enter("k_yen")
    /\ K' = Kp
    /\ k' = 0
    /\ IF Kp <= 0 \/ NI.node_cap = 0
       THEN RS' = << >> /\ pc' = "done"
       ELSE LET base == cgr_best_route_filtered(plan, P, NI, NoFilter)
            IN IF ~base.found
               THEN RS' = << >> /\ pc' = "done"
               ELSE RS' = << base >> /\ pc' = "yen"
    /\ nsearch' = IF Kp <= 0 \/ NI.node_cap = 0 THEN 0 ELSE 1
    /\ UNCHANGED << plan, NI, P, F, s, R, W, pops >>
    /\ UNCHANGED auxVars

\* one round of the while loop
KYenRound ==
    /\ pc = "yen"
    /\ Len(RS) < K /\ k < K * YEN_ATTEMPT_FACTOR
    /\ k' = k + 1
    /\ LET best == YenRoundBest(plan, P, NI, RS)
       IN IF ~best.found
          THEN pc' = "done" /\ RS' = RS
          ELSE pc' = pc /\ RS' = Append(RS, best)
    /\ nsearch' = nsearch + YenScanCount(RS, 1, 0)
    /\ UNCHANGED << plan, NI, P, op, F, s, R, W, K, calls, pops, prev >>
    /\ UNCHANGED auxVars

KYenReturn ==
    /\ pc = "yen"
    /\ ~(Len(RS) < K /\ k < K * YEN_ATTEMPT_FACTOR)
    /\ pc' = "done"
    /\ UNCHANGED << plan, NI, P, op, F, s, R, W, RS, K, k, calls, pops, prev, nsearch >>
    /\ UNCHANGED auxVars

Next ==
    \/ \E f \in FilterChoices(plan) : BestRouteBegin(f)
    \/ BestRoutePop
    \/ BestRouteReturn
    \/ \E Kp \in 1..MaxK : KRoutesBegin(Kp)
    \/ KRoutesIter
    \/ KRoutesReturn
    \/ \E Kp \in 1..MaxK : KYenBegin(Kp)
    \/ KYenRound
    \/ KYenReturn

Spec == Init /\ [][Next]_vars

\* ===================================================== properties: helpers
MinOf(S) == CHOOSE x \in S : \A y \in S : x <= y

\* single-hop ETA of 4.C, DBL_MAX when the hop is infeasible
HopEta(c, t_in, rq) ==
    IF contact_is_viable(c, t_in, rq.bundle_bytes)
    THEN eta_contact(c, t_in, rq.bundle_bytes, ExpiryAbs(rq))
    ELSE DBL_MAX

\* minimum ETA over every chain of at most fuel contacts that leaves node at
\* time t, is feasible hop by hop and ends at dst_node; DBL_MAX if none
RECURSIVE BestChain(_, _, _, _, _)
BestChain(C, rq, node, t, fuel) ==
    IF fuel = 0 THEN DBL_MAX
    ELSE MinOf({DBL_MAX} \cup
           { LET e == HopEta(C[i], t, rq)
             IN IF e = DBL_MAX THEN DBL_MAX
                ELSE LET further == BestChain(C, rq, C[i].to, e, fuel - 1)
                     IN IF C[i].to = rq.dst_node THEN Min2(e, further) ELSE further
             : i \in {j \in 1..Len(C) : C[j].from = node} })

MinChainEta(C, rq) == BestChain(C, rq, rq.src_node, rq.t0, Len(C) + 1)

\* contacts of a route, by id, in the plan C
RouteContacts(C, route) ==
    [j \in 1..route.hops |->
        C[CHOOSE i \in 1..Len(C) : C[i].id = route.contact_ids[j]]]

\* arrival time at the origin of hop j when the hops before it are chained
\* from t0 with the arithmetic of 4.C (no feasibility test)
PlainEta(c, t_in, rq) ==
    Max2(t_in, c.t_start) + c.setup_s
        + (rq.bundle_bytes \div Max2(c.rate_bps, 1)) + c.owlt

RECURSIVE ArrivalAt(_, _, _)
ArrivalAt(cs, rq, j) ==
    IF j = 1 THEN rq.t0 ELSE PlainEta(cs[j - 1], ArrivalAt(cs, rq, j - 1), rq)

WindowBytes(c, t_in) ==
    (c.t_end - Max2(t_in, c.t_start) - c.setup_s) * Max2(c.rate_bps, 1)

\* the working copy cgr_k_routes searched for its j-th route
RECURSIVE WorkBefore(_)
WorkBefore(j) ==
    IF j = 1 THEN plan ELSE consume_capacity(WorkBefore(j - 1), RS[j - 1], P)

\* every route the current call has returned so far, with the plan it was
\* searched on
Returned ==
    (IF op \in {"best", "filtered"} /\ pc = "done" /\ R.found
     THEN { [C |-> plan, route |-> R] } ELSE {})
    \cup (IF op = "k_yen" THEN { [C |-> plan, route |-> RS[j]] : j \in 1..Len(RS) }
          ELSE {})
    \cup (IF op = "k_routes"
          THEN { [C |-> WorkBefore(j), route |-> RS[j]] : j \in 1..Len(RS) }
          ELSE {})

\* number of occurrences of id over the routes of RS
RECURSIVE CountIn(_, _)
CountIn(seq, x) ==
    IF Len(seq) = 0 THEN 0
    ELSE (IF seq[1] = x THEN 1 ELSE 0) + CountIn(Tail(seq), x)

RECURSIVE Uses(_, _)
Uses(id, j) ==
    IF j = 0 THEN 0 ELSE CountIn(RS[j].contact_ids, id) + Uses(id, j - 1)

\* ================================================================= claims

\* C1: base-search optimality.  When cgr_best_route returns on a valid plan,
\* found is true exactly when some feasible chain from src_node to dst_node
\* exists, and the returned ETA is the minimum ETA over all such chains.
C1_BaseOptimal ==
    (pc = "done" /\ op = "best" /\ ValidPlan(plan)) =>
        LET m == MinChainEta(plan, P)
        IN /\ R.found <=> (m # DBL_MAX)
           /\ R.found => R.eta = m

\* C1 witness: a two-hop optimum beats a feasible but slower direct contact.
C1_Witness ==
    /\ pc = "done" /\ op = "best" /\ R.found /\ R.hops = 2
    /\ \E i \in 1..Len(plan) :
         /\ plan[i].from = P.src_node /\ plan[i].to = P.dst_node
         /\ HopEta(plan[i], P.t0, P) # DBL_MAX
         /\ HopEta(plan[i], P.t0, P) > R.eta

\* C2: temporal coherence.  In every returned route consecutive hops meet at
\* a node and each hop is feasible at the time the bundle reaches its origin
\* (t0 for the first hop, the ETA after the previous hop otherwise).
RECURSIVE CoherentFrom(_, _, _, _)
CoherentFrom(cs, P0, j, t_in) ==
    IF j > Len(cs) THEN TRUE
    ELSE /\ (j > 1 => cs[j - 1].to = cs[j].from)
         /\ HopEta(cs[j], t_in, P0) # DBL_MAX
         /\ CoherentFrom(cs, P0, j + 1, HopEta(cs[j], t_in, P0))

C2_TemporalCoherence ==
    \A x \in Returned : CoherentFrom(RouteContacts(x.C, x.route), P, 1, P.t0)

\* C2 witness: a diversified list holds a route of two hops whose second
\* contact is entered after its window opened.
C2_Witness ==
    /\ pc = "done" /\ op = "k_yen" /\ Len(RS) >= 2
    /\ \E j \in 1..Len(RS) :
         /\ RS[j].hops = 2
         /\ LET cs == RouteContacts(plan, RS[j])
            IN ArrivalAt(cs, P, 2) > cs[2].t_start

C4_ExpiryRespected ==
    P.expiry > 0 =>
        \A x \in Returned :
            LET cs == RouteContacts(x.C, x.route)
            IN /\ x.route.eta <= P.t0 + P.expiry
               /\ \A j \in 1..Len(cs) :
                    PlainEta(cs[j], ArrivalAt(cs, P, j), P) <= P.t0 + P.expiry

\* C5: non-mutation.  No step of any search (cgr_best_route,
\* cgr_best_route_filtered, cgr_k_routes, cgr_k_yen) changes the caller's
\* contact array; cgr_k_routes decrements residuals in its working copy only.
C5_NonMutation == [][plan' = plan]_vars

\* C5 witness: cgr_k_routes has returned after consuming capacity, and its
\* working copy differs from the caller's array.
C5_Witness ==
    /\ pc = "done" /\ op = "k_routes" /\ Len(RS) >= 1
    /\ W # plan

\* C6: consumption monotonicity.  When cgr_k_routes returns on a plan with
\* unique ids, every contact's residual in the working copy is
\* max(0, original residual - m * bundle_bytes), m being the number of
\* occurrences of the contact's id in the returned routes.
C6_ConsumptionExact ==
    (pc = "done" /\ op = "k_routes" /\ ValidPlan(plan)) =>
        \A i \in 1..Len(plan) :
            W[i].residual_bytes =
                Max2(0, plan[i].residual_bytes
                        - Uses(plan[i].id, Len(RS)) * P.bundle_bytes)

\* C6 witness: at return one contact has been used by two routes and one
\* contact by none.
C6_Witness ==
    /\ pc = "done" /\ op = "k_routes"
    /\ \E i \in 1..Len(plan) : Uses(plan[i].id, Len(RS)) >= 2
    /\ \E i \in 1..Len(plan) : Uses(plan[i].id, Len(RS)) = 0

C8_YenDistinct ==
    op = "k_yen" =>
        \A i, j \in 1..Len(RS) :
            i # j => RS[i].contact_ids # RS[j].contact_ids

\* C8 witness: cgr_k_yen returned at least two routes and a detour search of
\* its last round produced a route that was already in the list.
C8_Witness ==
    /\ pc = "done" /\ op = "k_yen" /\ Len(RS) >= 2 /\ k >= 2
    /\ \E j \in 1..Len(RS) : \E i \in 0..(RS[j].hops - 1) :
         LET cand == cgr_best_route_filtered(plan, P, NI, YenFilter(RS[j], i))
         IN /\ cand.found
            /\ \E m \in 1..Len(RS) : RS[m].contact_ids = cand.contact_ids

\* C9: determinism.  A base search that follows a base search on the same
\* plan, index and request returns the same found flag, ETA, hop count and
\* contact ids.
C9_BaseSearchRepeatable ==
    (pc = "done" /\ op = "best" /\ prev.op = "best") => R = prev.R

\* C9 witness: the second of two base searches has returned a route.
C9_Witness ==
    /\ pc = "done" /\ op = "best" /\ prev.op = "best" /\ calls = 2
    /\ R.found /\ R.hops >= 2

\* C10: monotone pop.  On a valid plan the ETAs popped during one search are
\* non-decreasing, and no label in the queue is below the ETA last popped.
C10_MonotonePop ==
    ValidPlan(plan) =>
        /\ \A i \in 1..(Len(pops) - 1) : pops[i] <= pops[i + 1]
        /\ (pc = "loop" /\ Len(pops) >= 1) =>
              \A i \in 1..Len(s.pq) : s.pq[i].eta >= pops[Len(pops)]

\* C10 witness: a search has popped two labels of increasing ETA and its
\* queue holds a label pushed by an expansion.
C10_Witness ==
    /\ pc = "loop" /\ Len(pops) >= 2 /\ pops[1] < pops[2]
    /\ \E i \in 1..Len(s.pq) : s.pq[i].prev_idx # -1


\* ============================================ filtered search (C11, C12)
\* ------------------------------------------------------------ input domain
FiltContacts == 3
MaxForced == 2

FiltEdges == { <<0, 1>>, <<1, 2>>, <<0, 2>> }

FiltPlans ==
    { [i \in 1..FiltContacts |-> MkContact(i, es[i], ps[i])] :
        es \in [1..FiltContacts -> FiltEdges],
        ps \in [1..FiltContacts -> Profiles] }

FiltRequests ==
    { rq \in Requests : rq.t0 = 0 /\ rq.expiry = 0 /\ rq.bundle_bytes = 2000 }

SeqsUpTo(S, n) == UNION { [1..m -> S] : m \in 0..n }

\* every filter set with up to MaxForced forced ids (ids of the plan and one
\* id that is in no contact) and at most one banned id
FilterSets(C) ==
    LET ids == { C[i].id : i \in 1..Len(C) }
    IN { [present |-> TRUE, banned_ids |-> b, forced_prefix_ids |-> f,
          forced_count |-> Len(f)] :
            b \in SeqsUpTo(ids, 1),
            f \in SeqsUpTo(ids \cup {ContactId(Len(C) + 1)}, MaxForced) }

InitFilt ==
    /\ plan \in FiltPlans
    /\ P \in FiltRequests
    /\ NI = build_neighbor_index(plan)
    /\ op = "none" /\ pc = "idle"
    /\ F = NoFilter
    /\ s = IdleSearch
    /\ R = NotFound
    /\ W = << >>
    /\ RS = << >>
    /\ K = 0 /\ k = 0
    /\ calls = 0
    /\ pops = << >>
    /\ prev = NoPrev
    /\ nsearch = 0
    /\ AuxIdle

NextFilt ==
    \/ \E f \in FilterSets(plan) : BestRouteBegin(f)
    \/ BestRoutePop
    \/ BestRouteReturn

SpecFilt == InitFilt /\ [][NextFilt]_vars

IdsOf(seq) == { seq[i] : i \in 1..Len(seq) }

\* C11: filter safety.  Every route returned by cgr_best_route_filtered with
\* a filter set begins with the forced_prefix_ids in their given order and
\* contains no contact whose id is in banned_ids; so a search that forces the
\* first contact of one option and bans a contact of another never returns a
\* route through the banned option.
C11_FilterSafety ==
    (pc = "done" /\ op = "filtered" /\ R.found) =>
        /\ R.hops >= F.forced_count
        /\ \A j \in 1..F.forced_count : R.contact_ids[j] = F.forced_prefix_ids[j]
        /\ IdsOf(R.contact_ids) \cap IdsOf(F.banned_ids) = {}

\* C11 witness: the first contact of a two-hop option is forced, a feasible
\* and faster direct contact is banned, and the two-hop option is returned.
C11_Witness ==
    /\ pc = "done" /\ op = "filtered" /\ R.found /\ R.hops = 2
    /\ F.forced_count = 1 /\ Len(F.banned_ids) = 1
    /\ \E i \in 1..Len(plan) :
         /\ plan[i].id = F.banned_ids[1]
         /\ plan[i].from = P.src_node /\ plan[i].to = P.dst_node
         /\ HopEta(plan[i], P.t0, P) < R.eta

\* the forced prefix contradicts the ban list or the plan
PrefixBanned(flt) == IdsOf(flt.forced_prefix_ids) \cap IdsOf(flt.banned_ids) # {}
FirstNotFromSrc(C, rq, flt) ==
    /\ flt.forced_count > 0
    /\ ~ \E i \in 1..Len(C) :
           C[i].id = flt.forced_prefix_ids[1] /\ C[i].from = rq.src_node
NotAdjacent(C, flt) ==
    \E j \in 1..(flt.forced_count - 1) :
        ~ \E a, b \in 1..Len(C) :
            /\ C[a].id = flt.forced_prefix_ids[j]
            /\ C[b].id = flt.forced_prefix_ids[j + 1]
            /\ C[a].to = C[b].from

\* C12: filter contradiction.  cgr_best_route_filtered returns found = false
\* whenever the forced prefix contains a banned id, or its first id is not a
\* contact leaving src_node, or two consecutive forced ids are not adjacent
\* contacts.
C12_FilterContradiction ==
    (/\ pc = "done" /\ op = "filtered"
     /\ \/ PrefixBanned(F)
        \/ FirstNotFromSrc(plan, P, F)
        \/ NotAdjacent(plan, F))
    => (~R.found /\ R.hops = 0 /\ R.contact_ids = << >>)

\* C12 witness: the unfiltered search has a route, the two forced ids are
\* contacts of the plan, the first leaves src_node and none is banned, but
\* the second does not leave the node the first arrives at; nothing is found.
C12_Witness ==
    /\ pc = "done" /\ op = "filtered" /\ ~R.found
    /\ cgr_best_route(plan, P, NI).found
    /\ F.forced_count = 2
    /\ ~PrefixBanned(F) /\ ~FirstNotFromSrc(plan, P, F)
    /\ NotAdjacent(plan, F)
    /\ \A j \in 1..2 : \E i \in 1..Len(plan) : plan[i].id = F.forced_prefix_ids[j]


\* =================================================== invalid requests (C13)
InvContacts == 2

\* the empty plan and every plan of at most InvContacts contacts
InvPlans == { << >> } \cup { C \in Plans : Len(C) <= InvContacts }

\* src_node and dst_node below, inside and above the range of the index
InvRequests ==
    [src_node : {-1, 0, 3}, dst_node : {-1, 2, 3}, t0 : {0},
     bundle_bytes : {2000}, expiry : {0}]

InitInv ==
    /\ plan \in InvPlans
    /\ P \in InvRequests
    /\ NI = build_neighbor_index(plan)
    /\ op = "none" /\ pc = "idle"
    /\ F = NoFilter
    /\ s = IdleSearch
    /\ R = NotFound
    /\ W = << >>
    /\ RS = << >>
    /\ K = 0 /\ k = 0
    /\ calls = 0
    /\ pops = << >>
    /\ prev = NoPrev
    /\ nsearch = 0
    /\ AuxIdle

SpecInv == InitInv /\ [][Next]_vars

\* what the call that has just returned handed back is empty
EmptyResult ==
    IF op \in {"best", "filtered"}
    THEN ~R.found /\ R.hops = 0 /\ R.contact_ids = << >>
    ELSE RS = << >>

\* C13: invalid request outcome.  When src_node or dst_node is negative or
\* not below node_cap, or the plan is empty (no index), no step of any search
\* changes the plan, and every search that returns hands back found = false
\* with an empty route (the K variants: an empty list).
C13_InvalidRequest ==
    [][ ~ValidRequest(plan, P, NI) =>
            /\ plan' = plan
            /\ (pc' = "done" => EmptyResult') ]_vars

\* C13 witness: on a plan that has a route from node 0 to node 2, a K variant
\* asked for a destination above the index has returned.
C13_Witness ==
    /\ pc = "done" /\ op \in {"k_routes", "k_yen"}
    /\ P.src_node = 0 /\ P.dst_node >= NI.node_cap /\ NI.node_cap > 0
    /\ cgr_best_route(plan, [P EXCEPT !.dst_node = 2], NI).found


\* ====================================== allocations of one search (C14)
\* cgr_best_route_filtered followed one allocation at a time.  Which contacts
\* are pushed, whether a popped label is stale and whether the destination is
\* reached depend on the plan; here they are free choices, so that every
\* sequence of allocations a search can make is covered.  mem.live is the set
\* of buffers allocated and not yet freed: lab (labels), pq (the MinHeap
\* struct), items (its array), rev (back-pointer buffer), contact_ids (the
\* result); the prefix buffer seq is allocated and freed within one step.
HEAP_INIT_CAP == 64
REV_INIT_CAP == 16
MaxQueue == 65
MaxChain == 17

IdleRequest ==
    [src_node |-> 0, dst_node |-> 0, t0 |-> 0, bundle_bytes |-> 0, expiry |-> 0]

\* the kernel before any plan is loaded
KernelIdle ==
    /\ plan = << >>
    /\ P = IdleRequest
    /\ NI = build_neighbor_index(<< >>)
    /\ op = "none" /\ pc = "idle"
    /\ F = NoFilter
    /\ s = IdleSearch
    /\ R = NotFound
    /\ W = << >>
    /\ RS = << >>
    /\ K = 0 /\ k = 0
    /\ calls = 0
    /\ pops = << >>
    /\ prev = NoPrev
    /\ nsearch = 0

MemStart(forced) ==
    [pc |-> "lab", live |-> {}, failed |-> FALSE, forced |-> forced,
     items_ok |-> FALSE, size |-> 0, cap |-> 0, reached |-> FALSE,
     len |-> 0, rcap |-> 0, found |-> FALSE]

InitMem ==
    /\ KernelIdle
    /\ mem \in { MemStart(f) : f \in BOOLEAN }
    /\ live = LiveIdle /\ cli = CliIdle /\ scan = ScanIdle
    /\ api = ApiIdle /\ ev = EvIdle

\* return of the call with R as initialised (found = false)
MemReturnNotFound(m, freed) ==
    [m EXCEPT !.pc = "returned", !.live = m.live \ freed, !.found = FALSE]

\* a store through a null pointer: the process is killed, or anything returns
MemUndefined(m) ==
    { [m EXCEPT !.pc = "crashed"] }
        \cup { [m EXCEPT !.pc = "returned", !.found = b] : b \in BOOLEAN }

\* Label *lab = malloc(...); if (!lab) return R;
MemAllocLab(ok) ==
    /\ mem.pc = "lab"
    /\ mem' = IF ok THEN [mem EXCEPT !.pc = "heap_struct", !.live = @ \cup {"lab"}]
              ELSE MemReturnNotFound([mem EXCEPT !.failed = TRUE], {})
    /\ UNCHANGED memFrame

\* heap_new: h = malloc(sizeof(MinHeap)); h->size = 0;  (h is not tested)
MemHeapNewStruct(ok) ==
    /\ mem.pc = "heap_struct"
    /\ IF ok
       THEN mem' = [mem EXCEPT !.pc = "heap_items", !.live = @ \cup {"pq"},
                               !.cap = HEAP_INIT_CAP]
       ELSE mem' \in MemUndefined([mem EXCEPT !.failed = TRUE])
    /\ UNCHANGED memFrame

\* heap_new: h->items = malloc(...); return h;  (items is not tested, and
\* the caller's if (!pq) sees a non-null h)
MemHeapNewItems(ok) ==
    /\ mem.pc = "heap_items"
    /\ mem' = IF ok THEN [mem EXCEPT !.pc = "seed", !.live = @ \cup {"items"},
                                     !.items_ok = TRUE]
              ELSE [mem EXCEPT !.pc = "seed", !.failed = TRUE]
    /\ UNCHANGED memFrame

\* heap_push: ensure() reallocs when size >= cap and stores the result
\* untested (on failure the old array is lost); then items[size++] = v
MemPush(ok) ==
    /\ mem.pc \in {"seed", "expand"}
    /\ mem.size < MaxQueue
    /\ (mem.pc = "seed" /\ mem.forced) => mem.size = 0
    /\ LET grow == mem.size >= mem.cap
           m1 == IF ~grow THEN mem
                 ELSE IF ok THEN [mem EXCEPT !.cap = 2 * @]
                 ELSE [mem EXCEPT !.cap = 2 * @, !.items_ok = FALSE,
                                  !.failed = TRUE]
       IN /\ (~grow => ok)
          /\ IF m1.items_ok
             THEN mem' = [m1 EXCEPT !.size = @ + 1]
             ELSE mem' \in MemUndefined(m1)
    /\ UNCHANGED memFrame

\* end of seeding
MemSeedDone ==
    /\ mem.pc = "seed"
    /\ mem' = [mem EXCEPT !.pc = "loop"]
    /\ UNCHANGED memFrame

\* heap_pop and compute_prefix_done: with a forced prefix the buffer seq is
\* allocated and freed; if its malloc fails the prefix counts as not started
\* (return 0) and the search goes on.  Then the label is stale (continue), or
\* ends at the destination with the prefix complete (break), or is expanded.
MemPop(ok, outcome) ==
    /\ mem.pc = "loop" /\ mem.size > 0 /\ ~mem.reached
    /\ ((~mem.forced \/ outcome = "stale") => ok)
    /\ (outcome = "reached" => ok)
    /\ LET m1 == [mem EXCEPT !.size = @ - 1,
                             !.failed = mem.failed \/ ~ok]
       IN mem' = IF outcome = "stale" THEN m1
                 ELSE IF outcome = "reached" THEN [m1 EXCEPT !.reached = TRUE]
                 ELSE [m1 EXCEPT !.pc = "expand"]
    /\ UNCHANGED memFrame

\* end of the expansion of one label
MemExpandDone ==
    /\ mem.pc = "expand"
    /\ mem' = [mem EXCEPT !.pc = "loop"]
    /\ UNCHANGED memFrame

\* loop exit: heap_free(pq); without a destination free(lab) and return
MemLoopExit ==
    /\ mem.pc = "loop" /\ (mem.size = 0 \/ mem.reached)
    /\ LET heap == {"pq"} \cup (IF mem.items_ok THEN {"items"} ELSE {})
       IN mem' = IF ~mem.reached THEN MemReturnNotFound(mem, heap \cup {"lab"})
                 ELSE [mem EXCEPT !.pc = "rev", !.live = @ \ heap]
    /\ UNCHANGED memFrame

\* int *rev = malloc(...); if (!rev) { free(lab); return R; }
MemAllocRev(ok) ==
    /\ mem.pc = "rev"
    /\ mem' = IF ok THEN [mem EXCEPT !.pc = "walk", !.live = @ \cup {"rev"},
                                     !.rcap = REV_INIT_CAP]
              ELSE MemReturnNotFound([mem EXCEPT !.failed = TRUE], {"lab"})
    /\ UNCHANGED memFrame

\* one step of the back-pointer walk; rev is doubled when full
MemWalk(ok) ==
    /\ mem.pc = "walk" /\ mem.len < MaxChain
    /\ LET grow == mem.len >= mem.rcap
       IN /\ (~grow => ok)
          /\ mem' = IF grow /\ ~ok
                    THEN MemReturnNotFound([mem EXCEPT !.failed = TRUE],
                                           {"rev", "lab"})
                    ELSE [mem EXCEPT !.len = @ + 1,
                                     !.rcap = IF grow THEN 2 * @ ELSE @]
    /\ UNCHANGED memFrame

\* R.contact_ids = malloc(...); on failure free(rev), free(lab), return R;
\* otherwise fill R, free(rev), free(lab), return R with found = true
MemAllocIds(ok) ==
    /\ mem.pc = "walk" /\ mem.len >= 1
    /\ mem' = IF ok
              THEN [mem EXCEPT !.pc = "returned", !.found = TRUE,
                               !.live = (@ \ {"rev", "lab"}) \cup {"contact_ids"}]
              ELSE MemReturnNotFound([mem EXCEPT !.failed = TRUE], {"rev", "lab"})
    /\ UNCHANGED memFrame

NextMem ==
    \/ \E ok \in BOOLEAN : MemAllocLab(ok)
    \/ \E ok \in BOOLEAN : MemHeapNewStruct(ok)
    \/ \E ok \in BOOLEAN : MemHeapNewItems(ok)
    \/ \E ok \in BOOLEAN : MemPush(ok)
    \/ MemSeedDone
    \/ \E ok \in BOOLEAN, o \in {"stale", "reached", "expand"} : MemPop(ok, o)
    \/ MemExpandDone
    \/ MemLoopExit
    \/ \E ok \in BOOLEAN : MemAllocRev(ok)
    \/ \E ok \in BOOLEAN : MemWalk(ok)
    \/ \E ok \in BOOLEAN : MemAllocIds(ok)

SpecMem == InitMem /\ [][NextMem]_vars

\* C14 as stated: allocation-failure cleanup.  The call always returns; if
\* any of its allocations failed it returns found = false; and at return no
\* buffer of the call is live other than the id array of a found route.
C14_AllocCleanup ==
    /\ mem.pc # "crashed"
    /\ mem.pc = "returned" =>
         /\ (mem.failed => ~mem.found)
         /\ mem.live \subseteq (IF mem.found THEN {"contact_ids"} ELSE {})


\* ============================ diversification on longer plans (C15, C17)
YenMaxHops == 10
YenMaxK == 5

\* a contact open for the whole horizon
LongProfile(owlt) ==
    [t_start |-> 0, t_end |-> 1000000, rate_bps |-> 2, setup_s |-> 0,
     owlt |-> owlt, residual_bytes |-> 4000]

\* the chain 0 -> 1 -> ... -> n of n contacts, followed by d slower contacts
\* parallel to its first d hops
YenChain(n, d) ==
    [i \in 1..(n + d) |->
        LET h == IF i <= n THEN i ELSE i - n
        IN MkContact(i, << h - 1, h >>, LongProfile(IF i <= n THEN 0 ELSE 1000))]

YenRequest(dst) ==
    [src_node |-> 0, dst_node |-> dst, t0 |-> 0, bundle_bytes |-> 2000,
     expiry |-> 0]

\* plans of the diversification runs, each with its request
YenCases ==
    UNION { { [plan |-> YenChain(n, d), P |-> YenRequest(n)] :
                d \in 0..Min2(n, 2) } : n \in 1..YenMaxHops }

InitYen ==
    /\ \E c \in YenCases : plan = c.plan /\ P = c.P
    /\ NI = build_neighbor_index(plan)
    /\ op = "none" /\ pc = "idle"
    /\ F = NoFilter
    /\ s = IdleSearch
    /\ R = NotFound
    /\ W = << >>
    /\ RS = << >>
    /\ K = 0 /\ k = 0
    /\ calls = 0
    /\ pops = << >>
    /\ prev = NoPrev
    /\ nsearch = 0
    /\ AuxIdle

NextYen ==
    \/ \E Kp \in 1..MaxK : KYenBegin(Kp)
    \/ KYenRound
    \/ KYenReturn

\* A round of the while loop, one cgr_best_route_filtered call per step:
\* scan.route_idx and scan.i are the loop indices (route_idx counted from
\* 1), scan.best and scan.best_eta the best alternative of the round so far.
scanFrame == << mem, live, cli, api, ev >>

\* while (RS.count < K && attempts < max_attempts) { attempts++; ...
KYenRoundBegin ==
    /\ pc = "yen"
    /\ Len(RS) < K /\ k < K * YEN_ATTEMPT_FACTOR
    /\ k' = k + 1
    /\ scan' = [ScanIdle EXCEPT !.route_idx = 1]
    /\ pc' = "scan"
    /\ UNCHANGED << plan, NI, P, op, F, s, R, W, RS, K, calls, pops, prev,
                    nsearch, scanFrame >>

\* body of the inner for loop: one detour search and its comparison
KYenDetour ==
    /\ pc = "scan"
    /\ scan.route_idx <= Len(RS)
    /\ scan.i < RS[scan.route_idx].hops
    /\ LET acc == YenTry(plan, P, NI, RS, RS[scan.route_idx], scan.i,
                         [best |-> scan.best, best_eta |-> scan.best_eta])
       IN scan' = [scan EXCEPT !.i = @ + 1, !.best = acc.best,
                               !.best_eta = acc.best_eta]
    /\ nsearch' = nsearch + 1
    /\ UNCHANGED << plan, NI, P, op, pc, F, s, R, W, RS, K, k, calls, pops,
                    prev, scanFrame >>

\* the inner for loop is over: next route of the list
KYenNextRoute ==
    /\ pc = "scan"
    /\ scan.route_idx <= Len(RS)
    /\ scan.i >= RS[scan.route_idx].hops
    /\ scan' = [scan EXCEPT !.route_idx = @ + 1, !.i = 0]
    /\ UNCHANGED << kernelVars, scanFrame >>

\* variant: a round that finds nothing does not end the loop
KYenRoundEnd_no_break ==
    /\ pc = "scan"
    /\ scan.route_idx > Len(RS)
    /\ pc' = "yen"
    /\ RS' = IF ~scan.best.found THEN RS ELSE Append(RS, scan.best)
    /\ scan' = ScanIdle
    /\ UNCHANGED << plan, NI, P, op, F, s, R, W, K, k, calls, pops, prev,
                    nsearch, scanFrame >>

\* if (!best.found) break; RS.items[RS.count++] = best;
KYenRoundEnd ==
    /\ pc = "scan"
    /\ scan.route_idx > Len(RS)
    /\ IF ~scan.best.found
       THEN pc' = "done" /\ RS' = RS
       ELSE pc' = "yen" /\ RS' = Append(RS, scan.best)
    /\ scan' = ScanIdle
    /\ UNCHANGED << plan, NI, P, op, F, s, R, W, K, k, calls, pops, prev,
                    nsearch, scanFrame >>

NextYenLong ==
    \/ \E Kp \in 1..YenMaxK : KYenBegin(Kp)
    \/ KYenRoundBegin
    \/ KYenDetour
    \/ KYenNextRoute
    \/ KYenRoundEnd
    \/ KYenReturn

SpecYen == InitYen /\ [][NextYenLong]_vars

\* C15 as stated: bounded diversification cost.  In one cgr_k_yen call with
\* parameter K the number of invocations of cgr_best_route_filtered, the base
\* search included, never exceeds 20 * K.
C15_YenSearchBound ==
    op = "k_yen" => nsearch <= YEN_ATTEMPT_FACTOR * K


\* ============================================ two-contact chains (C16)
\* The linear-chain scenario of the specification, C0: 100 -> 1 [0, 40]
\* setup 0.2 owlt 0.02, C1: 1 -> 200 [5, 50] setup 0.1 owlt 0.02, rate 1e7,
\* residual 1e8, bundle 5e7, t0 = 0, with one tick for 0.01 s and one unit
\* for 100 bytes: every comparison of 4.C is then decided by a margin of at
\* least one tick, as it is in seconds.
ScenarioChain ==
    << [id |-> 0, from |-> 100, to |-> 1, t_start |-> 0, t_end |-> 4000,
        owlt |-> 2, rate_bps |-> 1000, setup_s |-> 20,
        residual_bytes |-> 1000000],
       [id |-> 1, from |-> 1, to |-> 200, t_start |-> 500, t_end |-> 5000,
        owlt |-> 2, rate_bps |-> 1000, setup_s |-> 10,
        residual_bytes |-> 1000000] >>

ScenarioRequest ==
    [src_node |-> 100, dst_node |-> 200, t0 |-> 0, bundle_bytes |-> 500000,
     expiry |-> 0]

\* every plan of two contacts 0 -> 1 and 1 -> 2, in either array order
TwoChains ==
    { C \in Plans :
        /\ Len(C) = 2
        /\ \E a, b \in 1..2 :
             /\ C[a].from = 0 /\ C[a].to = 1
             /\ C[b].from = 1 /\ C[b].to = 2 }

ChainCases ==
    { [plan |-> C, P |-> rq] : C \in TwoChains, rq \in Requests }
        \cup { [plan |-> ScenarioChain, P |-> ScenarioRequest] }

InitChain ==
    /\ \E c \in ChainCases : plan = c.plan /\ P = c.P
    /\ NI = build_neighbor_index(plan)
    /\ op = "none" /\ pc = "idle"
    /\ F = NoFilter
    /\ s = IdleSearch
    /\ R = NotFound
    /\ W = << >>
    /\ RS = << >>
    /\ K = 0 /\ k = 0
    /\ calls = 0
    /\ pops = << >>
    /\ prev = NoPrev
    /\ nsearch = 0
    /\ AuxIdle

NextBest ==
    \/ BestRouteBegin(NoFilter)
    \/ BestRoutePop
    \/ BestRouteReturn

SpecChain == InitChain /\ [][NextBest]_vars

\* the two contacts of a chain src -> n -> dst, first hop first
ChainOrder(C, rq) ==
    IF C[1].from = rq.src_node THEN << C[1], C[2] >> ELSE << C[2], C[1] >>

\* finish_k + owlt_k with finish_k = max(t_in_k, t_start_k) + setup_k
\* + bundle / rate_k
ChainHopEta(c, t_in, rq) ==
    Max2(t_in, c.t_start) + c.setup_s + (rq.bundle_bytes \div c.rate_bps)
        + c.owlt

\* C16: linear-chain ETA arithmetic.  On a plan of two contacts
\* src -> n -> dst that can both carry the bundle dispatched at t0, the base
\* search returns found = true, hops = 2, the route [first, second] and
\* ETA = finish2 + owlt2, where finish_k = max(t_in_k, t_start_k) + setup_k
\* + bundle / rate_k, t_in_1 = t0 and t_in_2 = finish1 + owlt1; on the
\* scenario's plan the ETA is 10.34 s.
C16_ChainEta ==
    (pc = "done" /\ op = "best") =>
        LET cs == ChainOrder(plan, P)
            eta1 == ChainHopEta(cs[1], P.t0, P)
            eta2 == ChainHopEta(cs[2], eta1, P)
        IN /\ (/\ HopEta(cs[1], P.t0, P) # DBL_MAX
               /\ HopEta(cs[2], eta1, P) # DBL_MAX)
              => /\ R.found /\ R.hops = 2
                 /\ R.contact_ids = << cs[1].id, cs[2].id >>
                 /\ R.eta = eta2
           /\ (plan = ScenarioChain /\ P = ScenarioRequest)
              => /\ R.found /\ R.hops = 2
                 /\ R.contact_ids = << 0, 1 >>
                 /\ R.eta = 1034      \* 10.34 s in ticks of 0.01 s

\* C16 witness: the search has returned on the scenario's plan, whose second
\* contact is entered after its window opened.
C16_Witness ==
    /\ pc = "done" /\ op = "best" /\ R.found
    /\ plan = ScenarioChain /\ P = ScenarioRequest
    /\ ChainHopEta(plan[1], P.t0, P) > plan[2].t_start


\* ========================================= two disjoint paths (C17)
TwoProfiles ==
    { LongProfile(0), LongProfile(1000),
      [t_start |-> 3000, t_end |-> 1000000, rate_bps |-> 2, setup_s |-> 1000,
       owlt |-> 0, residual_bytes |-> 4000] }

\* edges of a path 0 -> 3 of n hops through node m
PathEdges(n, m) == IF n = 1 THEN << <<0, 3>> >> ELSE << <<0, m>>, <<m, 3>> >>

\* two paths from node 0 to node 3, the first through node 1, the second
\* through node 1 or node 2
TwoPathPlans ==
    UNION { { [i \in 1..(a + b) |->
                 MkContact(i, (PathEdges(a, 1) \o PathEdges(b, m))[i], ps[i])] :
              ps \in [1..(a + b) -> TwoProfiles] } :
            a \in 1..2, b \in 1..2, m \in 1..2 }

\* the scenario of the specification: the linear chain and the second path
\* C2: 100 -> 2 [0, 40], C3: 2 -> 200 [6, 60]
ScenarioTwoPaths ==
    ScenarioChain \o
    << [id |-> 2, from |-> 100, to |-> 2, t_start |-> 0, t_end |-> 4000,
        owlt |-> 2, rate_bps |-> 1000, setup_s |-> 20,
        residual_bytes |-> 1000000],
       [id |-> 3, from |-> 2, to |-> 200, t_start |-> 600, t_end |-> 6000,
        owlt |-> 2, rate_bps |-> 1000, setup_s |-> 10,
        residual_bytes |-> 1000000] >>

TwoPathCases ==
    { [plan |-> C, P |-> YenRequest(3)] : C \in TwoPathPlans }
        \cup { [plan |-> ScenarioTwoPaths, P |-> ScenarioRequest] }

InitTwo ==
    /\ \E c \in TwoPathCases : plan = c.plan /\ P = c.P
    /\ NI = build_neighbor_index(plan)
    /\ op = "none" /\ pc = "idle"
    /\ F = NoFilter
    /\ s = IdleSearch
    /\ R = NotFound
    /\ W = << >>
    /\ RS = << >>
    /\ K = 0 /\ k = 0
    /\ calls = 0
    /\ pops = << >>
    /\ prev = NoPrev
    /\ nsearch = 0
    /\ AuxIdle

SpecTwo == InitTwo /\ [][NextYen]_vars

\* every path of the plan from src_node to dst_node, as a sequence of
\* distinct contact indices
PathsOf(C, rq) ==
    { q \in SeqsUpTo(1..Len(C), Len(C)) :
        /\ Len(q) >= 1
        /\ C[q[1]].from = rq.src_node /\ C[q[Len(q)]].to = rq.dst_node
        /\ \A j \in 1..(Len(q) - 1) : C[q[j]].to = C[q[j + 1]].from
        /\ \A i, j \in 1..Len(q) : q[i] = q[j] => i = j }

PathIds(C, q) == [j \in 1..Len(q) |-> C[q[j]].id]
PathFeasible(C, rq, q) ==
    CoherentFrom([j \in 1..Len(q) |-> C[q[j]]], rq, 1, rq.t0)
InnerNodes(C, q) == { C[q[j]].to : j \in 1..(Len(q) - 1) }

\* pairs of feasible paths that share no contact and together are the plan
TwoDisjointPaths(C, rq) ==
    { pq \in PathsOf(C, rq) \X PathsOf(C, rq) :
        /\ IdsOf(pq[1]) \cap IdsOf(pq[2]) = {}
        /\ IdsOf(pq[1]) \cup IdsOf(pq[2]) = 1..Len(C)
        /\ PathFeasible(C, rq, pq[1]) /\ PathFeasible(C, rq, pq[2]) }

\* the list is exactly the two paths, the lower ETA first
ListIsPair(C, pq) ==
    /\ Len(RS) = 2
    /\ { RS[1].contact_ids, RS[2].contact_ids }
           = { PathIds(C, pq[1]), PathIds(C, pq[2]) }
    /\ RS[1].eta <= RS[2].eta

\* C17 as stated: when the plan consists of two contact-disjoint src-to-dst
\* paths, both feasible from t0, cgr_k_yen with K = 2 returns exactly these
\* two paths, the lower-ETA one first.
C17_TwoPathsContactDisjoint ==
    (pc = "done" /\ op = "k_yen" /\ K = 2) =>
        \A pq \in TwoDisjointPaths(plan, P) : ListIsPair(plan, pq)

\* C17 amended: when the plan consists of two src-to-dst paths, both feasible
\* from t0, that share no contact and no intermediate node, cgr_k_yen with
\* K = 2 returns exactly these two paths, the lower-ETA one first.
C17_TwoPathsNodeDisjoint ==
    (pc = "done" /\ op = "k_yen" /\ K = 2) =>
        \A pq \in TwoDisjointPaths(plan, P) :
            (InnerNodes(plan, pq[1]) \cap InnerNodes(plan, pq[2]) = {})
                => ListIsPair(plan, pq)

\* C17 witness: on a plan of two two-hop paths through different nodes the
\* list holds both, the path listed second in the plan first.
C17_Witness ==
    /\ pc = "done" /\ op = "k_yen" /\ K = 2 /\ Len(RS) = 2
    /\ Len(plan) = 4
    /\ \E pq \in TwoDisjointPaths(plan, P) :
         /\ InnerNodes(plan, pq[1]) \cap InnerNodes(plan, pq[2]) = {}
         /\ Len(pq[1]) = 2 /\ Len(pq[2]) = 2
    /\ RS[1].contact_ids = << plan[3].id, plan[4].id >>
    /\ RS[1].eta < RS[2].eta


\* ================================================ live loop (C18, C19)
\* cgr_live's main: every cycle copies the base plan around the simulation
\* clock, builds the index, runs cgr_best_route and, when a route was found
\* and alternatives are asked for, cgr_k_yen, releases what it allocated,
\* sleeps and advances the clock.  SIGINT sets g_stop at any moment; the loop
\* reads it in its while test only.  The searches run as the kernel's own
\* actions, so an interrupt can arrive in the middle of a search.
MaxCycles == 3

\* (long)(a / b) for b > 0: the quotient truncated toward zero
TruncDiv(a, b) == IF a >= 0 THEN a \div b ELSE -((-a) \div b)

\* variant: the end of the window is not moved
ShiftWindow_start_only(c, d) == [c EXCEPT !.t_start = c.t_start + d]

ShiftWindow(c, d) ==
    [c EXCEPT !.t_start = c.t_start + d, !.t_end = c.t_end + d]

\* variant: only the copy of the current period is produced
periodize_contacts_single_copy(base, t0, period) ==
    IF period <= 0 THEN base
    ELSE LET kk == TruncDiv(t0, period)
         IN [i \in 1..Len(base) |-> ShiftWindow(base[i], kk * period)]

\* the working plan of one cycle: the base plan as it is when period <= 0,
\* else its copies for period k and period k + 1, k = (long)(t0 / period)
periodize_contacts(base, t0, period) ==
    IF period <= 0 THEN base
    ELSE LET kk == TruncDiv(t0, period)
             N == Len(base)
         IN [i \in 1..(2 * N) |->
               IF i <= N THEN ShiftWindow(base[i], kk * period)
               ELSE ShiftWindow(base[i - N], (kk + 1) * period)]

LivePeriod == 4000
LiveTicks == {1500, 4000}
LiveKAlt == {0, 1, 2}

LiveProfiles ==
    { [t_start |-> 0, t_end |-> 1000, rate_bps |-> 2, setup_s |-> 0,
       owlt |-> 0, residual_bytes |-> 4000],
      [t_start |-> 1000, t_end |-> 4000, rate_bps |-> 2, setup_s |-> 0,
       owlt |-> 0, residual_bytes |-> 4000],
      [t_start |-> -3000, t_end |-> -1000, rate_bps |-> 2, setup_s |-> 0,
       owlt |-> 0, residual_bytes |-> 4000] }

\* base plans: one contact 0 -> 2, or the chain 0 -> 1 -> 2
LivePlans ==
    { << MkContact(1, <<0, 2>>, pr) >> : pr \in LiveProfiles }
        \cup { << MkContact(1, <<0, 1>>, p1), MkContact(2, <<1, 2>>, p2) >> :
                 p1 \in LiveProfiles, p2 \in LiveProfiles }

\* CgrParams of one cycle
LiveRequest(now) ==
    [src_node |-> 0, dst_node |-> 2, t0 |-> now, bundle_bytes |-> 2000,
     expiry |-> 0]

\* state at the first while test: C0 loaded, sim_time = 0, cycle = 0
LiveStart(base, period, tick, k_alt) ==
    [pc |-> "check", stop |-> FALSE, stop_passed |-> 0, stop_in |-> "none",
     passed |-> 0,
     completed |-> 0, cycle |-> 0, sim_time |-> 0, period |-> period,
     tick |-> tick, k_alt |-> k_alt, base |-> base, held |-> {"C0"},
     best |-> NotFound]

InitLive ==
    /\ KernelIdle
    /\ mem = MemIdle /\ cli = CliIdle /\ scan = ScanIdle
    /\ api = ApiIdle /\ ev = EvIdle
    /\ live \in { LiveStart(b, pd, tk, ka) :
                    b \in LivePlans, pd \in {0, LivePeriod}, tk \in LiveTicks,
                    ka \in LiveKAlt }

liveFrame == << mem, cli, scan, api, ev >>

\* variant: the while test does not read g_stop
LiveCheck_ignores_stop ==
    /\ live.pc = "check"
    /\ live.passed < MaxCycles
    /\ live' = [live EXCEPT !.pc = "begin", !.passed = @ + 1]
    /\ UNCHANGED << kernelVars, liveFrame >>

\* while (!g_stop): the only read of the flag; on exit free(C0), return 0
LiveCheck ==
    /\ live.pc = "check"
    /\ IF live.stop
       THEN live' = [live EXCEPT !.pc = "exit", !.held = @ \ {"C0"}]
       ELSE /\ live.passed < MaxCycles
            /\ live' = [live EXCEPT !.pc = "begin", !.passed = @ + 1]
    /\ UNCHANGED << kernelVars, liveFrame >>

\* cycle++; C = periodize_contacts(C0, N0, sim_time, L.period, &Nc)
LivePeriodize ==
    /\ live.pc = "begin"
    /\ plan' = periodize_contacts(live.base, live.sim_time, live.period)
    /\ live' = [live EXCEPT !.pc = "index", !.cycle = @ + 1,
                            !.held = @ \cup {"C"}]
    /\ UNCHANGED << NI, P, op, pc, F, s, R, W, RS, K, k, calls, pops, prev,
                    nsearch, liveFrame >>

\* NI = build_neighbor_index(C, Nc); P = { src, dst, t0 = sim_time, ... }
LiveIndex ==
    /\ live.pc = "index"
    /\ NI' = build_neighbor_index(plan)
    /\ P' = LiveRequest(live.sim_time)
    /\ live' = [live EXCEPT !.pc = "best", !.held = @ \cup {"NI"}]
    /\ UNCHANGED << plan, op, pc, F, s, R, W, RS, K, k, calls, pops, prev,
                    nsearch, liveFrame >>

\* Route best = cgr_best_route(C, Nc, &P, NI): entry of the call
LiveBestCall ==
    /\ live.pc = "best"
    /\ pc = "idle"
    /\ BestRouteBegin(NoFilter)

\* the call has returned: the route is reported
LiveBestDone ==
    /\ live.pc = "best"
    /\ pc = "done"
    /\ live' = [live EXCEPT
                  !.pc = IF live.k_alt > 0 /\ R.found THEN "yen" ELSE "release",
                  !.best = R,
                  !.held = IF R.found THEN @ \cup {"best"} ELSE @]
    /\ pc' = "idle"
    /\ UNCHANGED << plan, NI, P, op, F, s, R, W, RS, K, k, calls, pops, prev,
                    nsearch, liveFrame >>

\* Routes RS = cgr_k_yen(C, Nc, &P, NI, L.k_alt): entry of the call
LiveYenCall ==
    /\ live.pc = "yen"
    /\ pc = "idle"
    /\ KYenBegin(live.k_alt)

\* the alternatives are printed; free_routes(&RS)
LiveYenDone ==
    /\ live.pc = "yen"
    /\ pc = "done"
    /\ live' = [live EXCEPT !.pc = "release"]
    /\ RS' = << >>
    /\ pc' = "idle"
    /\ UNCHANGED << plan, NI, P, op, F, s, R, W, K, k, calls, pops, prev,
                    nsearch, liveFrame >>

\* variant: the best route's buffer is not freed
LiveRelease_keeps_best ==
    /\ live.pc = "release"
    /\ live' = [live EXCEPT !.pc = "sleep", !.held = @ \ {"NI", "C"}]
    /\ plan' = << >>
    /\ NI' = build_neighbor_index(<< >>)
    /\ UNCHANGED << P, op, pc, F, s, R, W, RS, K, k, calls, pops, prev,
                    nsearch, liveFrame >>

\* print_progress; free_route(&best); free_neighbor_index(NI); free(C)
LiveRelease ==
    /\ live.pc = "release"
    /\ live' = [live EXCEPT !.pc = "sleep", !.best = NotFound,
                            !.held = @ \ {"best", "NI", "C"}]
    /\ plan' = << >>
    /\ NI' = build_neighbor_index(<< >>)
    /\ UNCHANGED << P, op, pc, F, s, R, W, RS, K, k, calls, pops, prev,
                    nsearch, liveFrame >>

\* sleep_ms(1000)
LiveSleep ==
    /\ live.pc = "sleep"
    /\ live' = [live EXCEPT !.pc = "advance"]
    /\ UNCHANGED << kernelVars, liveFrame >>

\* sim_time += L.tick; back to the while test
LiveAdvance ==
    /\ live.pc = "advance"
    /\ live' = [live EXCEPT !.pc = "check", !.sim_time = @ + live.tick,
                            !.completed = @ + 1]
    /\ UNCHANGED << kernelVars, liveFrame >>

\* on_sigint: g_stop = 1, at any point of the program
Interrupt ==
    /\ live.pc \notin {"off", "exit"}
    /\ ~live.stop
    /\ live' = [live EXCEPT !.stop = TRUE, !.stop_passed = live.passed,
                            !.stop_in = pc]
    /\ UNCHANGED << kernelVars, liveFrame >>

\* the steps of the program itself
LiveProgram ==
    \/ LiveCheck
    \/ LivePeriodize
    \/ LiveIndex
    \/ LiveBestCall
    \/ BestRoutePop
    \/ BestRouteReturn
    \/ LiveBestDone
    \/ LiveYenCall
    \/ KYenRound
    \/ KYenReturn
    \/ LiveYenDone
    \/ LiveRelease
    \/ LiveSleep
    \/ LiveAdvance

NextLive ==
    \/ LiveProgram
    \/ Interrupt

SpecLive == InitLive /\ [][NextLive]_vars

\* The program is one thread that always executes its next statement.
\* Termination is checked on the base plans of one contact, with the clock
\* advancing by one period per cycle.
InitLiveFair ==
    /\ InitLive
    /\ Len(live.base) = 1
    /\ live.tick = LivePeriod

SpecLiveFair == InitLiveFair /\ [][NextLive]_vars /\ WF_vars(LiveProgram)

WindowsWithin(base, period) ==
    \A i \in 1..Len(base) : base[i].t_start >= 0 /\ base[i].t_end <= period

WorkingPlanLive == live.pc \in {"index", "best", "yen", "release"}

LiveStopped ==
    /\ live.pc = "exit"
    /\ live.held = {}
    /\ live.completed = live.passed
    /\ live.passed = live.stop_passed

\* C19 live-loop cancellation: once the interrupt handler has set the stop
\* flag no while test lets another cycle start, the cycle in progress runs
\* through its clock advance, and the loop then ends with the base plan and
\* every per-cycle buffer released.
C19_LiveCancellation ==
    /\ [](live.pc # "off" /\ live.stop => live.passed = live.stop_passed)
    /\ [](live.pc = "exit" => live.stop /\ live.held = {})
    /\ ((live.pc # "off" /\ live.stop) ~> LiveStopped)

\* the flag was set in the middle of a search and the loop has ended after
\* completing that cycle
C19_Witness ==
    /\ LiveStopped
    /\ live.stop_in = "loop"
    /\ live.stop_passed >= 2
    /\ live.sim_time = live.stop_passed * live.tick
    /\ calls >= live.stop_passed


\* ========================================= command-line planner (C20)
\* cgr's main: the argument loop with parse_int_safe / parse_double_safe,
\* the validation of the request, the load of the contact file, the choice
\* of one search by K_yen and K_consume, its report and the release.
\* An option is absent, or a text that is not a number, or a number, or the
\* text "nan" (strtod reads it as a NaN, strtol reads nothing of it).
OptAbsent == [kind |-> "absent", val |-> 0]
OptText == [kind |-> "text", val |-> 0]
OptNum(v) == [kind |-> "num", val |-> v]
OptNaN == [kind |-> "nan", val |-> 0]

\* parse_int_safe: strtol, rejected with nothing read, trailing text or
\* val < 0
parse_int_safe(o) == IF o.kind = "num" /\ o.val >= 0 THEN 0 ELSE -1

\* parse_double_safe: strtod, rejected with nothing read, trailing text or
\* val < 0.0; a NaN is read whole and val < 0.0 is false for it
parse_double_safe(o) ==
    IF o.kind = "nan" \/ (o.kind = "num" /\ o.val >= 0) THEN 0 ELSE -1

\* the value a variable holds after the argument loop
Parsed(o, dflt) == IF o.kind = "absent" THEN dflt ELSE o.val

\* some option was given and rejected by the argument loop
ArgRejected(a) ==
    \/ \E f \in {"src", "dst", "k_yen"} :
         a[f].kind # "absent" /\ parse_int_safe(a[f]) # 0
    \/ \E f \in {"t0", "bytes", "expiry"} :
         a[f].kind # "absent" /\ parse_double_safe(a[f]) # 0
    \/ a.k.kind # "absent" /\ (parse_int_safe(a.k) # 0 \/ a.k.val < 1)

\* the checks after the argument loop; P.bundle_bytes <= 0.0 is false for
\* a NaN
RequestRejected(a) ==
    \/ ~a.contacts
    \/ Parsed(a.src, -1) < 0
    \/ Parsed(a.dst, -1) < 0
    \/ a.bytes.kind # "nan" /\ Parsed(a.bytes, 0) <= 0

CliArgs ==
    [contacts : BOOLEAN,
     src : {OptAbsent, OptText, OptNum(0)},
     dst : {OptNum(-1), OptNum(2)},
     t0 : {OptAbsent},
     bytes : {OptAbsent, OptNum(0), OptNum(2000)},
     expiry : {OptAbsent},
     k : {OptAbsent, OptNum(0), OptNum(1), OptNum(2), OptNum(3)},
     k_yen : {OptAbsent, OptText, OptNum(0), OptNum(1), OptNum(2)}]

\* contact files: unreadable or empty, or two contacts 0 -> 2 side by side
CliFiles ==
    { << >> } \cup { C \in Plans : /\ Len(C) = 2
                                   /\ \A i \in 1..2 : C[i].from = 0 /\ C[i].to = 2 }

CliStart(a, file) ==
    [pc |-> "args", args |-> a, file |-> file, K_consume |-> 1, K_yen |-> 0,
     rc |-> -1, held |-> {}, out |-> [mode |-> "none", routes |-> << >>]]

InitCli ==
    /\ KernelIdle
    /\ mem = MemIdle /\ live = LiveIdle /\ scan = ScanIdle
    /\ api = ApiIdle /\ ev = EvIdle
    /\ cli \in { CliStart(a, f) : a \in CliArgs, f \in CliFiles }

cliFrame == << mem, live, scan, api, ev >>

\* variant: a consumption count above 1 is served first
CliMode_consume_first(c) ==
    IF c.K_consume > 1 THEN "k_routes"
    ELSE IF c.K_yen > 0 THEN "k_yen" ELSE "best"

\* if (K_yen > 0) cgr_k_yen; else if (K_consume == 1) cgr_best_route;
\* else cgr_k_routes
CliMode(c) ==
    IF c.K_yen > 0 THEN "k_yen"
    ELSE IF c.K_consume = 1 THEN "best" ELSE "k_routes"

\* the argument loop and the checks that follow it; exit status 2 on a
\* rejected option or request
CliParse ==
    /\ cli.pc = "args"
    /\ IF ArgRejected(cli.args) \/ RequestRejected(cli.args)
       THEN /\ cli' = [cli EXCEPT !.pc = "exit", !.rc = 2]
            /\ P' = P
       ELSE /\ cli' = [cli EXCEPT
                         !.pc = "load",
                         !.K_consume = Max2(Parsed(cli.args.k, 1), 1),
                         !.K_yen = Max2(Parsed(cli.args.k_yen, 0), 0)]
            /\ P' = [src_node |-> Parsed(cli.args.src, -1),
                     dst_node |-> Parsed(cli.args.dst, -1),
                     t0 |-> Parsed(cli.args.t0, 0),
                     bundle_bytes |-> Parsed(cli.args.bytes, 0),
                     expiry |-> Parsed(cli.args.expiry, 0)]
    /\ UNCHANGED << plan, NI, op, pc, F, s, R, W, RS, K, k, calls, pops, prev,
                    nsearch, cliFrame >>

\* load_contacts_csv (exit status 1 when nothing is loaded);
\* build_neighbor_index
CliLoad ==
    /\ cli.pc = "load"
    /\ IF Len(cli.file) <= 0
       THEN /\ cli' = [cli EXCEPT !.pc = "exit", !.rc = 1]
            /\ UNCHANGED << plan, NI >>
       ELSE /\ cli' = [cli EXCEPT !.pc = "run", !.held = {"C", "NI"}]
            /\ plan' = cli.file
            /\ NI' = build_neighbor_index(cli.file)
    /\ UNCHANGED << P, op, pc, F, s, R, W, RS, K, k, calls, pops, prev,
                    nsearch, cliFrame >>

\* Routes RS = cgr_k_yen(C, N, &P, NI, K_yen)
CliRunYen ==
    /\ cli.pc = "run" /\ pc = "idle"
    /\ CliMode(cli) = "k_yen"
    /\ KYenBegin(cli.K_yen)

\* Route R = cgr_best_route(C, N, &P, NI)
CliRunBest ==
    /\ cli.pc = "run" /\ pc = "idle"
    /\ CliMode(cli) = "best"
    /\ BestRouteBegin(NoFilter)

\* Routes RS = cgr_k_routes(C, N, &P, NI, K_consume)
CliRunKRoutes ==
    /\ cli.pc = "run" /\ pc = "idle"
    /\ CliMode(cli) = "k_routes"
    /\ KRoutesBegin(cli.K_consume)

\* the result of the call is printed, everything is freed, return 0
CliReport ==
    /\ cli.pc = "run" /\ pc = "done"
    /\ cli' = [cli EXCEPT
                 !.pc = "exit", !.rc = 0, !.held = {},
                 !.out = [mode |-> op,
                          routes |-> IF op = "best" THEN << R >> ELSE RS]]
    /\ UNCHANGED << kernelVars, cliFrame >>

NextCli ==
    \/ CliParse
    \/ CliLoad
    \/ CliRunYen
    \/ CliRunBest
    \/ CliRunKRoutes
    \/ BestRoutePop
    \/ BestRouteReturn
    \/ KRoutesIter
    \/ KRoutesReturn
    \/ KYenRound
    \/ KYenReturn
    \/ CliReport

SpecCli == InitCli /\ [][NextCli]_vars

\* the search the request selects, read off the parsed counts
Selected ==
    IF cli.K_yen > 0 THEN "k_yen"
    ELSE IF cli.K_consume > 1 THEN "k_routes" ELSE "best"

\* C20 variant precedence: with K_consume > 1 and K_yen > 0 only cgr_k_yen is
\* run and reported; cgr_k_routes is run only when K_yen = 0 (and K > 1),
\* cgr_best_route only when K_yen = 0 and K = 1; one search per request.
C20_VariantPrecedence ==
    /\ calls <= 1
    /\ cli.pc \in {"args", "load"} => calls = 0
    /\ calls = 1 =>
         /\ op = Selected
         /\ op = "k_routes" => cli.K_yen = 0 /\ cli.K_consume > 1
         /\ op = "best" => cli.K_yen = 0 /\ cli.K_consume = 1
         /\ (cli.K_consume > 1 /\ cli.K_yen > 0) => op = "k_yen" /\ W = << >>
    /\ (cli.pc = "exit" /\ cli.rc = 0) =>
         /\ calls = 1
         /\ cli.out.mode = Selected
         /\ cli.out.routes = IF Selected = "best" THEN << R >> ELSE RS

\* both variants asked for; the report holds the two routes of cgr_k_yen and
\* no working copy was ever made
C20_Witness ==
    /\ cli.pc = "exit" /\ cli.rc = 0
    /\ cli.K_consume > 1 /\ cli.K_yen > 1
    /\ cli.out.mode = "k_yen"
    /\ Len(cli.out.routes) = 2
    /\ nsearch > 1 /\ W = << >>


\* ================================================ input validation (C21)
\* main's argument loop over every option of the request, one contact file
ValidationArgs ==
    [contacts : BOOLEAN,
     src : {OptAbsent, OptText, OptNaN, OptNum(-1), OptNum(0)},
     dst : {OptText, OptNum(2)},
     t0 : {OptAbsent, OptNum(-4000), OptNum(0), OptNaN},
     bytes : {OptAbsent, OptText, OptNaN, OptNum(-2000), OptNum(0),
              OptNum(2000)},
     expiry : {OptAbsent, OptNum(-4000), OptNum(4000)},
     k : {OptAbsent, OptText},
     k_yen : {OptAbsent, OptNum(-1)}]

\* contact files: unreadable or empty, or one contact 0 -> 2
ValidationFiles ==
    { << >> } \cup { C \in Plans : Len(C) = 1 /\ C[1].from = 0 /\ C[1].to = 2 }

InitValidation ==
    /\ KernelIdle
    /\ mem = MemIdle /\ live = LiveIdle /\ scan = ScanIdle
    /\ api = ApiIdle /\ ev = EvIdle
    /\ cli \in { CliStart(a, f) : a \in ValidationArgs, f \in ValidationFiles }

\* every number of the request is an exact number
ExactRequest(a) == \A f \in {"t0", "bytes", "expiry"} : a[f].kind # "nan"

\* the search of an accepted request; the search of a request that holds a
\* NaN is not followed, the kernel operators compute with exact numbers
CliRunExact == ExactRequest(cli.args) /\ CliRunBest

NextValidation ==
    \/ CliParse
    \/ CliLoad
    \/ CliRunExact
    \/ BestRoutePop
    \/ BestRouteReturn
    \/ CliReport

SpecValidation == InitValidation /\ [][NextValidation]_vars

\* --src or --dst is not a non-negative integer, a numeric option that is
\* given is not a number or is negative, or the bundle size is not > 0
NonNegative(o) == o.kind = "num" /\ o.val >= 0
InvalidInput(a) ==
    \/ ~NonNegative(a.src)
    \/ ~NonNegative(a.dst)
    \/ \E f \in {"t0", "expiry", "k", "k_yen"} :
         a[f].kind # "absent" /\ ~NonNegative(a[f])
    \/ ~(a.bytes.kind = "num" /\ a.bytes.val > 0)

\* C21 input validation: a request whose --src or --dst is not a
\* non-negative integer, whose numeric options are malformed or negative, or
\* whose bundle size is not > 0 never gets past the argument checks: it
\* exits with a non-zero status, no plan is loaded and no search is run.
C21_InputValidation ==
    InvalidInput(cli.args) =>
        /\ cli.pc \in {"args", "exit"}
        /\ cli.pc = "exit" => cli.rc # 0
        /\ plan = << >> /\ cli.held = {}
        /\ calls = 0


\* ============================================ planning cycles, EWMA (C22)
\* cgr_api's main after the contacts were fetched: each cycle copies the
\* plan C into W, adds the learned penalties to the setup times of W,
\* searches on W, charges the route to C (--consume), learns the wait of
\* the first hop (--learn-ewma) and frees W.
ApiMaxCycles == 3

\* alpha is a number of halves, so that the averages are exact
AlphaDen == 2

\* the fetched plan: a fast contact 0 -> 2 that opens late beside a slow one
\* that is open, in both orders, and the late contact behind a first hop
ApiLate ==
    [t_start |-> 4000, t_end |-> 40000, rate_bps |-> 2, setup_s |-> 0,
     owlt |-> 0, residual_bytes |-> 4000]
ApiOpen ==
    [t_start |-> 0, t_end |-> 40000, rate_bps |-> 1, setup_s |-> 4000,
     owlt |-> 0, residual_bytes |-> 4000]
ApiPlans ==
    { << MkContact(1, <<0, 2>>, ApiLate), MkContact(2, <<0, 2>>, ApiOpen) >>,
      << MkContact(1, <<0, 2>>, ApiOpen), MkContact(2, <<0, 2>>, ApiLate) >>,
      << MkContact(1, <<0, 1>>, ApiLate), MkContact(2, <<1, 2>>, ApiOpen) >> }

ApiCfgs ==
    [cycles : 0..ApiMaxCycles, tick_s : {1000}, consume : BOOLEAN,
     learn_ewma : BOOLEAN, alpha : 0..AlphaDen, lambda_ : {0, 1, 2},
     k_alt : {0, 2}, bundle_bytes : {2000}, t0 : {0}]

\* state at the first test of the for loop: C fetched, E = calloc(N);
\* C0 and E_copy are history: the plan as fetched, the penalties at the
\* last copy
ApiStart(C, cfg) ==
    [pc |-> "check", stop |-> FALSE, cfg |-> cfg, C |-> C, C0 |-> C,
     E |-> [i \in 1..Len(C) |-> 0], cycle |-> 1, now |-> cfg.t0,
     wait_s |-> 0, best |-> NotFound, E_copy |-> [i \in 1..Len(C) |-> 0]]

InitApi ==
    /\ KernelIdle
    /\ mem = MemIdle /\ live = LiveIdle /\ cli = CliIdle /\ scan = ScanIdle
    /\ ev = EvIdle
    /\ api \in { ApiStart(C, cfg) : C \in ApiPlans, cfg \in ApiCfgs }

apiFrame == << mem, live, cli, scan, ev >>

\* for (cycle = 1; cycle <= cfg.cycles && !g_stop; cycle++); on exit
\* free(E), free(C), return 0
ApiCheck ==
    /\ api.pc = "check"
    /\ api' = [api EXCEPT
                 !.pc = IF api.cycle <= api.cfg.cycles /\ ~api.stop
                        THEN "copy" ELSE "exit"]
    /\ UNCHANGED << kernelVars, apiFrame >>

\* W[i].setup_s += cfg.lambda_ * E[i].penalty_s
Penalized(C, E, lambda_) ==
    [i \in 1..Len(C) |-> [C[i] EXCEPT !.setup_s = @ + lambda_ * E[i]]]

\* variant: the penalties are added to the plan itself, W is its copy
ApiCopy_on_true_plan ==
    /\ api.pc = "copy"
    /\ LET Cp == IF api.cfg.learn_ewma
                 THEN Penalized(api.C, api.E, api.cfg.lambda_) ELSE api.C
       IN /\ plan' = Cp
          /\ NI' = build_neighbor_index(Cp)
          /\ api' = [api EXCEPT !.pc = "best", !.C = Cp, !.E_copy = api.E]
    /\ P' = [src_node |-> 0, dst_node |-> 2, t0 |-> api.now,
             bundle_bytes |-> api.cfg.bundle_bytes, expiry |-> 0]
    /\ UNCHANGED << op, pc, F, s, R, W, RS, K, k, calls, pops, prev, nsearch,
                    apiFrame >>

\* W = malloc; memcpy(W, C); the penalties; NI = build_neighbor_index(W, N);
\* CgrParams P = { src, dst, t0 = now, bundle_bytes, expiry = 0 }
ApiCopy ==
    /\ api.pc = "copy"
    /\ LET Wc == IF api.cfg.learn_ewma
                 THEN Penalized(api.C, api.E, api.cfg.lambda_) ELSE api.C
       IN /\ plan' = Wc
          /\ NI' = build_neighbor_index(Wc)
    /\ P' = [src_node |-> 0, dst_node |-> 2, t0 |-> api.now,
             bundle_bytes |-> api.cfg.bundle_bytes, expiry |-> 0]
    /\ api' = [api EXCEPT !.pc = "best", !.E_copy = api.E]
    /\ UNCHANGED << op, pc, F, s, R, W, RS, K, k, calls, pops, prev, nsearch,
                    apiFrame >>

\* Route best = cgr_best_route(W, N, &P, NI): entry of the call
ApiBestCall ==
    /\ api.pc = "best"
    /\ pc = "idle"
    /\ BestRouteBegin(NoFilter)

\* wait_s = fmax(0, fmax(now, W[i].t_start) - now) of the first W[i] with
\* the id of the first hop
ApiWait(Wc, best, now) ==
    LET i == IF best.hops > 0 THEN FirstWithId(Wc, best.contact_ids[1]) ELSE 0
    IN IF i = 0 THEN 0 ELSE Max2(0, Max2(now, Wc[i].t_start) - now)

\* the call has returned: the route and its wait are printed
ApiBestDone ==
    /\ api.pc = "best"
    /\ pc = "done"
    /\ api' = [api EXCEPT
                 !.pc = IF ~R.found THEN "release"
                        ELSE IF api.cfg.k_alt > 0 THEN "yen" ELSE "settle",
                 !.best = R,
                 !.wait_s = IF R.found THEN ApiWait(plan, R, api.now) ELSE 0]
    /\ pc' = "idle"
    /\ UNCHANGED << plan, NI, P, op, F, s, R, W, RS, K, k, calls, pops, prev,
                    nsearch, apiFrame >>

\* Routes RS = cgr_k_yen(W, N, &P, NI, cfg.k_alt): entry of the call
ApiYenCall ==
    /\ api.pc = "yen"
    /\ pc = "idle"
    /\ KYenBegin(api.cfg.k_alt)

\* the alternatives are printed; free_routes(&RS)
ApiYenDone ==
    /\ api.pc = "yen"
    /\ pc = "done"
    /\ api' = [api EXCEPT !.pc = "settle"]
    /\ RS' = << >>
    /\ pc' = "idle"
    /\ UNCHANGED << plan, NI, P, op, F, s, R, W, K, k, calls, pops, prev,
                    nsearch, apiFrame >>

\* --consume: the first C[j] with the id of each hop loses bundle_bytes,
\* or everything when it holds no more than that
RECURSIVE ApiConsume(_, _, _, _)
ApiConsume(C, ids, h, bytes) ==
    IF h > Len(ids) THEN C
    ELSE LET j == FirstWithId(C, ids[h])
             Cn == IF j = 0 THEN C
                   ELSE IF C[j].residual_bytes > bytes
                        THEN [C EXCEPT ![j].residual_bytes = @ - bytes]
                        ELSE [C EXCEPT ![j].residual_bytes = 0]
         IN ApiConsume(Cn, ids, h + 1, bytes)

\* variant: the penalty is replaced by the last wait instead of averaged
ApiLearn_no_average(C, E, best, alpha, wait_s) ==
    LET i == IF best.hops > 0 THEN FirstWithId(C, best.contact_ids[1]) ELSE 0
    IN IF i = 0 THEN E ELSE [E EXCEPT ![i] = wait_s]

\* --learn-ewma: penalty_s = (1 - alpha) * penalty_s + alpha * wait_s of the
\* first C[i] with the id of the first hop
ApiLearn(C, E, best, alpha, wait_s) ==
    LET i == IF best.hops > 0 THEN FirstWithId(C, best.contact_ids[1]) ELSE 0
    IN IF i = 0 THEN E
       ELSE [E EXCEPT
               ![i] = ((AlphaDen - alpha) * @ + alpha * wait_s) \div AlphaDen]

\* the route found is charged to C and learned from
ApiSettle ==
    /\ api.pc = "settle"
    /\ api' = [api EXCEPT
                 !.pc = "release",
                 !.C = IF api.cfg.consume
                       THEN ApiConsume(@, api.best.contact_ids, 1,
                                       api.cfg.bundle_bytes)
                       ELSE @,
                 !.E = IF api.cfg.learn_ewma
                       THEN ApiLearn(api.C, @, api.best, api.cfg.alpha,
                                     api.wait_s)
                       ELSE @]
    /\ UNCHANGED << kernelVars, apiFrame >>

\* free_route(&best); free_neighbor_index(NI); free(W); now += cfg.tick_s;
\* cycle++
ApiRelease ==
    /\ api.pc = "release"
    /\ api' = [api EXCEPT !.pc = "check", !.best = NotFound, !.wait_s = 0,
                          !.now = @ + api.cfg.tick_s, !.cycle = @ + 1]
    /\ plan' = << >>
    /\ NI' = build_neighbor_index(<< >>)
    /\ UNCHANGED << P, op, pc, F, s, R, W, RS, K, k, calls, pops, prev,
                    nsearch, apiFrame >>

\* on_sigint: g_stop = 1, at any point of the program
ApiInterrupt ==
    /\ api.pc \notin {"off", "exit"}
    /\ ~api.stop
    /\ api' = [api EXCEPT !.stop = TRUE]
    /\ UNCHANGED << kernelVars, apiFrame >>

NextApi ==
    \/ ApiCheck
    \/ ApiCopy
    \/ ApiBestCall
    \/ BestRoutePop
    \/ BestRouteReturn
    \/ ApiBestDone
    \/ ApiYenCall
    \/ KYenRound
    \/ KYenReturn
    \/ ApiYenDone
    \/ ApiSettle
    \/ ApiRelease
    \/ ApiInterrupt

SpecApi == InitApi /\ [][NextApi]_vars

\* a contact with its residual capacity left out
SansResidual(c) == [c EXCEPT !.residual_bytes = 0]

\* the working copy exists between its malloc and its free
HasWorkingCopy == api.pc \in {"best", "yen", "settle", "release"}

\* C22 EWMA frame: with learning enabled, over all cycles, every field other
\* than residual_bytes of every contact of the true plan is as it was
\* fetched; the working copy of a cycle is the plan of that moment with
\* lambda * penalty[i] added to setup_s and nothing else, so its setup time
\* is the fetched one plus the penalty of that cycle, and it is gone between
\* cycles.
C22_EwmaFrame ==
    (api.pc # "off" /\ api.cfg.learn_ewma) =>
        /\ Len(api.C) = Len(api.C0)
        /\ \A i \in 1..Len(api.C) :
             SansResidual(api.C[i]) = SansResidual(api.C0[i])
        /\ HasWorkingCopy =>
             /\ Len(plan) = Len(api.C0)
             /\ \A i \in 1..Len(plan) :
                  /\ plan[i].setup_s =
                       api.C0[i].setup_s + api.cfg.lambda_ * api.E_copy[i]
                  /\ [plan[i] EXCEPT !.setup_s = 0, !.residual_bytes = 0]
                       = [api.C0[i] EXCEPT !.setup_s = 0, !.residual_bytes = 0]
        /\ ~HasWorkingCopy => plan = << >>

\* third cycle with learning and consumption: a penalty was learned and is in
\* the working copy, capacity was consumed from the true plan
C22_Witness ==
    /\ api.pc = "settle" /\ api.cycle = 3
    /\ api.cfg.learn_ewma /\ api.cfg.consume /\ api.cfg.lambda_ > 0
    /\ \E i \in 1..Len(api.C) :
         /\ api.E[i] > 0
         /\ plan[i].setup_s > api.C[i].setup_s
         /\ api.C[i].setup_s = api.C0[i].setup_s
    /\ \E i \in 1..Len(api.C) :
         api.C[i].residual_bytes < api.C0[i].residual_bytes


\* ============================================= filtered optimality (C23)
\* plans of FiltContacts contacts over Edges, which hold the way back 1 -> 0
LoopPlans ==
    { [i \in 1..FiltContacts |-> MkContact(i, es[i], ps[i])] :
        es \in [1..FiltContacts -> Edges],
        ps \in [1..FiltContacts -> Profiles] }

InitLoop ==
    /\ plan \in LoopPlans
    /\ P \in FiltRequests
    /\ NI = build_neighbor_index(plan)
    /\ op = "none" /\ pc = "idle"
    /\ F = NoFilter
    /\ s = IdleSearch
    /\ R = NotFound
    /\ W = << >>
    /\ RS = << >>
    /\ K = 0 /\ k = 0
    /\ calls = 0
    /\ pops = << >>
    /\ prev = NoPrev
    /\ nsearch = 0
    /\ AuxIdle

SpecLoop == InitLoop /\ [][NextFilt]_vars

\* minimum ETA over the routes that continue from node at time t with
\* contacts not yet used, take the forced ids first and in order, take no
\* banned id and end at dst_node with the prefix complete; DBL_MAX if none
RECURSIVE BestRouteUnder(_, _, _, _, _, _, _)
BestRouteUnder(C, rq, flt, node, t, used, depth) ==
    MinOf({DBL_MAX} \cup
      { LET e == HopEta(C[i], t, rq)
        IN IF e = DBL_MAX THEN DBL_MAX
           ELSE LET further == BestRouteUnder(C, rq, flt, C[i].to, e,
                                              used \cup {i}, depth + 1)
                IN IF C[i].to = rq.dst_node /\ depth + 1 >= flt.forced_count
                   THEN Min2(e, further) ELSE further
        : i \in { j \in 1..Len(C) \ used :
                    /\ C[j].from = node
                    /\ ~is_banned_id(C[j].id, flt)
                    /\ depth < flt.forced_count =>
                         C[j].id = flt.forced_prefix_ids[depth + 1] } })

MinRouteUnder(C, rq, flt) ==
    BestRouteUnder(C, rq, flt, rq.src_node, rq.t0, {}, 0)

Contradictory(C, rq, flt) ==
    PrefixBanned(flt) \/ FirstNotFromSrc(C, rq, flt) \/ NotAdjacent(C, flt)

\* C23 filtered optimality: on a plan with unique ids and a filter set that is
\* not contradictory, cgr_best_route_filtered returns the minimum ETA over
\* the feasible routes from src_node to dst_node that begin with the forced
\* prefix and hold no banned id, and found = false only when there is none.
C23_FilteredOptimal ==
    (/\ pc = "done" /\ op = "filtered"
     /\ ValidPlan(plan) /\ ~Contradictory(plan, P, F))
    => LET m == MinRouteUnder(plan, P, F)
       IN /\ R.found <=> (m # DBL_MAX)
          /\ R.found => R.eta = m

\* a prefix of two contacts is forced and a third contact ends the route,
\* later than the unfiltered optimum
C23_Witness ==
    /\ pc = "done" /\ op = "filtered" /\ R.found
    /\ ~Contradictory(plan, P, F)
    /\ F.forced_count = 2 /\ R.hops = 3
    /\ R.eta > MinChainEta(plan, P)
    /\ R.eta = MinRouteUnder(plan, P, F)


\* ================================================== settled on pop (C24)
\* minimum ETA over every chain of at most fuel contacts that leaves node at
\* time t, is feasible hop by hop and ends with the contact of index last;
\* DBL_MAX if none
RECURSIVE BestChainTo(_, _, _, _, _, _)
BestChainTo(C, rq, node, t, fuel, last) ==
    IF fuel = 0 THEN DBL_MAX
    ELSE MinOf({DBL_MAX} \cup
           { LET e == HopEta(C[i], t, rq)
             IN IF e = DBL_MAX THEN DBL_MAX
                ELSE LET further == BestChainTo(C, rq, C[i].to, e, fuel - 1, last)
                     IN IF i = last THEN Min2(e, further) ELSE further
             : i \in {j \in 1..Len(C) : C[j].from = node} })

MinEtaEndingWith(C, rq, last) ==
    BestChainTo(C, rq, rq.src_node, rq.t0, Len(C) + 1, last)

\* the label heap_pop is about to return is not stale
PopsFresh(st) ==
    ~heap_empty(st.pq)
    /\ ~(HeapTop(st.pq).eta > st.lab[HeapTop(st.pq).contact_idx].eta + EPS_TIME)

\* contact i was popped with the label it holds: it is labelled and the
\* queue entry pushed with that label has left the queue
Settled(st, i) ==
    /\ st.lab[i].eta # DBL_MAX
    /\ ~ \E q \in 1..Len(st.pq) :
           st.pq[q].contact_idx = i /\ st.pq[q].eta = st.lab[i].eta

\* C24 settled on pop: in a base search on a valid plan, a contact popped
\* with a label that is not stale holds the minimum ETA over all feasible
\* chains from src_node at t0 that end with this contact, and the label of a
\* contact that was popped is the same after every later step of the search.
C24_SettledOnPop ==
    [][ (pc = "loop" /\ op = "best" /\ ValidPlan(plan)) =>
          /\ (pops' # pops /\ PopsFresh(s)) =>
                LET cur == HeapTop(s.pq)
                IN /\ cur.eta = MinEtaEndingWith(plan, P, cur.contact_idx)
                   /\ s.lab[cur.contact_idx].eta = cur.eta
                   /\ s'.lab[cur.contact_idx] = s.lab[cur.contact_idx]
          /\ \A i \in 1..Len(plan) :
                Settled(s, i) => s'.lab[i] = s.lab[i] ]_vars

\* two contacts were popped; the second comes back to the origin of the
\* first, which a second, slower chain therefore ends with, and the label of
\* the first is still the minimum
C24_Witness ==
    /\ pc = "loop" /\ op = "best" /\ ValidPlan(plan)
    /\ Len(pops) >= 2
    /\ \E i, j \in 1..Len(plan) :
         /\ Settled(s, i) /\ Settled(s, j)
         /\ s.lab[j].eta > s.lab[i].eta
         /\ plan[j].to = plan[i].from
         /\ HopEta(plan[i], s.lab[j].eta, P) # DBL_MAX
         /\ HopEta(plan[i], s.lab[j].eta, P) > s.lab[i].eta
         /\ s.lab[i].eta = MinEtaEndingWith(plan, P, i)


\* ===================================================== queue bound (C25)
\* number of queue entries that carry contact i
EntriesOf(h, i) == Cardinality({ q \in 1..Len(h) : h[q].contact_idx = i })

\* C25 queue bound: at every point of a search over a valid plan of N
\* contacts the queue holds at most N entries, at most one per contact and
\* only for labelled contacts, and a step of the search pushes an entry only
\* for a contact that had no label yet: each contact's label is pushed at
\* most once per search.
C25_QueueBound ==
    /\ [] ((pc = "loop" /\ ValidPlan(plan)) =>
             /\ Len(s.pq) <= Len(plan)
             /\ \A i \in 1..Len(plan) :
                  /\ EntriesOf(s.pq, i) <= 1
                  /\ EntriesOf(s.pq, i) = 1 => s.lab[i].eta # DBL_MAX)
    /\ [][ (pc = "loop" /\ ValidPlan(plan)) =>
             \A i \in 1..Len(plan) :
                EntriesOf(s'.pq, i) > EntriesOf(s.pq, i) =>
                    s.lab[i].eta = DBL_MAX ]_vars

\* after the first pop of a search on three contacts the queue holds two
\* entries, a seed and a label pushed by the expansion
C25_Witness ==
    /\ pc = "loop" /\ ValidPlan(plan)
    /\ Len(pops) = 1
    /\ Len(s.pq) = Len(plan) - 1
    /\ Len(plan) = FiltContacts
    /\ \E q \in 1..Len(s.pq) : s.pq[q].prev_idx # -1
    /\ \E q \in 1..Len(s.pq) : s.pq[q].prev_idx = -1


\* ============================================ acyclic back-pointers (C26)
\* the indices visited from contact i along prev_idx, at most fuel of them
RECURSIVE BackWalk(_, _, _)
BackWalk(lab, i, fuel) ==
    IF i = -1 \/ fuel = 0 THEN << >>
    ELSE << i >> \o BackWalk(lab, lab[i].prev_idx, fuel - 1)

NoRepeat(seq) == \A a, b \in 1..Len(seq) : seq[a] = seq[b] => a = b

\* C26 acyclic back-pointers: in every state of a search on a valid plan the
\* walk along prev_idx from any labelled contact reaches -1 within N steps
\* and visits no index twice; a returned route has at most N hops and no
\* contact twice.
C26_AcyclicBackPointers ==
    ValidPlan(plan) =>
        /\ (pc \in {"loop", "done"} /\ Len(s.lab) = Len(plan)) =>
              \A i \in 1..Len(plan) :
                 s.lab[i].eta # DBL_MAX =>
                    LET w == BackWalk(s.lab, i, Len(plan) + 1)
                    IN Len(w) <= Len(plan) /\ NoRepeat(w)
        /\ (pc = "done" /\ R.found) =>
              /\ R.hops <= Len(plan)
              /\ R.hops = Len(R.contact_ids)
              /\ NoRepeat(R.contact_ids)

\* the plan holds the cycle 0 -> 1 -> 0 and the returned route of three
\* contacts goes round it once before it leaves for dst_node
C26_Witness ==
    /\ pc = "done" /\ R.found /\ ValidPlan(plan)
    /\ R.hops = 3
    /\ BackWalk(s.lab, s.best_end, Len(plan) + 1) # << >>
    /\ Len(BackWalk(s.lab, s.best_end, Len(plan) + 1)) = 3
    /\ \E a, b \in 1..Len(plan) :
         /\ plan[a].from = P.src_node /\ plan[a].to = plan[b].from
         /\ plan[b].to = P.src_node
         /\ R.contact_ids[1] = plan[a].id /\ R.contact_ids[2] = plan[b].id


\* ======================== feasibility and ETA of one contact (C27, C28)
\* contact_is_viable and eta_contact called on their own, on one contact
\* with the window [0, 6000], in every order; the bundle sizes are multiples
\* of the rate, so that bundle_bytes / rate is exact
EvContacts ==
    { MkContact(1, <<0, 2>>,
                [t_start |-> 0, t_end |-> 6000, rate_bps |-> rt, setup_s |-> st,
                 owlt |-> ow, residual_bytes |-> rb]) :
        rt \in {0, 1, 1000, 2000}, st \in {0, 2000}, ow \in {0, 1000},
        rb \in {0, 1000, 2000, 4000, 6000000} }

EvArrivals == {-1000, 0, 2000, 3999, 4000, 4001, 4002, 5999, 6000, 6001, 6002}
EvBundles == {1000, 2000, 4000, 6000}
EvExpiries == {0, 6000, 7000}

EvStart(c, t_in, bundle_bytes, expiry_abs) ==
    [pc |-> "on", c |-> c, t_in |-> t_in, bundle_bytes |-> bundle_bytes,
     expiry_abs |-> expiry_abs, viable_called |-> FALSE, viable |-> 0,
     eta_called |-> FALSE, eta |-> DBL_MAX]

InitEv ==
    /\ KernelIdle
    /\ mem = MemIdle /\ live = LiveIdle /\ cli = CliIdle /\ scan = ScanIdle
    /\ api = ApiIdle
    /\ \E c \in EvContacts, t \in EvArrivals, b \in EvBundles,
          x \in EvExpiries :
            /\ b % EffRate(c) = 0
            /\ ev = EvStart(c, t, b, x)

evFrame == << kernelVars, mem, live, cli, scan, api >>

\* contact_is_viable(&c, t_in, bundle_bytes)
EvViable ==
    /\ ev.pc = "on" /\ ~ev.viable_called
    /\ ev' = [ev EXCEPT
                !.viable_called = TRUE,
                !.viable = IF contact_is_viable(ev.c, ev.t_in, ev.bundle_bytes)
                           THEN 1 ELSE 0]
    /\ UNCHANGED evFrame

\* eta_contact(&c, t_in, bundle_bytes, expiry_abs)
EvEta ==
    /\ ev.pc = "on" /\ ~ev.eta_called
    /\ ev' = [ev EXCEPT
                !.eta_called = TRUE,
                !.eta = eta_contact(ev.c, ev.t_in, ev.bundle_bytes,
                                    ev.expiry_abs)]
    /\ UNCHANGED evFrame

NextEv ==
    \/ EvViable
    \/ EvEta

SpecEv == InitEv /\ [][NextEv]_vars

\* C27 pre-check equivalence: for a contact with residual_bytes >= 0, any
\* arrival time and any bundle size > 0, contact_is_viable accepts exactly
\* when eta_contact without an expiry bound returns a finite ETA.
C27_PreCheckEquivalence ==
    (/\ ev.pc = "on" /\ ev.viable_called /\ ev.eta_called
     /\ ev.expiry_abs = 0
     /\ ev.c.residual_bytes >= 0 /\ ev.bundle_bytes > 0)
    => (ev.viable = 1 <=> ev.eta # DBL_MAX)

\* the caller's test of one hop: the pre-check accepts and the ETA is finite
\* (cgr_best_route_filtered: "if (!contact_is_viable(...)) continue;" then
\* "if (eta == DBL_MAX) continue;")
EvDone == ev.pc = "on" /\ ev.viable_called /\ ev.eta_called
EvFeasible == ev.viable = 1 /\ ev.eta # DBL_MAX

\* the quantities of 4.C for the call at hand
EvWindow == ev.c.t_end - StartTx(ev.c, ev.t_in) - ev.c.setup_s
EvWindowBytes == EvWindow * EffRate(ev.c)
EvFinish ==
    StartTx(ev.c, ev.t_in) + ev.c.setup_s + ev.bundle_bytes \div EffRate(ev.c)
EvArrive == EvFinish + ev.c.owlt

\* no limit of 4.C is exceeded, and at least one is met with equality
EvWithinLimits ==
    /\ ev.bundle_bytes <= ev.c.residual_bytes
    /\ ev.bundle_bytes <= EvWindowBytes
    /\ EvFinish <= ev.c.t_end
    /\ (ev.expiry_abs > 0 => EvArrive <= ev.expiry_abs)
EvTouching ==
    \/ EvFinish = ev.c.t_end
    \/ EvWindowBytes = ev.bundle_bytes
    \/ ev.c.residual_bytes = ev.bundle_bytes
    \/ (ev.expiry_abs > 0 /\ EvArrive = ev.expiry_abs)

HeapMaxPush == 5

HeapLabels ==
    { [contact_idx |-> i, eta |-> e, prev_idx |-> -1] :
        i \in 0..1, e \in {1000, 2000, 3000} }

\* what heap_pop returns on an empty heap (eta 1e300, below DBL_MAX)
HeapNoLabel == [contact_idx |-> -1, eta |-> DBL_MAX - 1, prev_idx |-> -1]

\* items: the array h->items[0 .. size-1]; ret: the label of the last pop;
\* history: last (the last call), nin / nout (how often each label was
\* pushed / returned), run (the ETAs returned since the last push)
HeapStart ==
    [pc |-> "heap", items |-> << >>, ret |-> HeapNoLabel, last |-> "new",
     nin |-> [x \in HeapLabels |-> 0], nout |-> [x \in HeapLabels |-> 0],
     run |-> << >>, pushes |-> 0]

InitHeap ==
    /\ KernelIdle
    /\ mem = MemIdle /\ live = LiveIdle /\ cli = CliIdle /\ scan = ScanIdle
    /\ api = ApiIdle
    /\ ev = HeapStart

\* heap_push(h, v)
EvHeapPush ==
    /\ ev.pc = "heap" /\ ev.pushes < HeapMaxPush
    /\ \E v \in HeapLabels :
         ev' = [ev EXCEPT !.items = heap_push(@, v),
                          !.last = "push",
                          !.nin[v] = @ + 1,
                          !.run = << >>,
                          !.pushes = @ + 1]
    /\ UNCHANGED evFrame

\* heap_pop(h)
EvHeapPop ==
    /\ ev.pc = "heap"
    /\ IF heap_empty(ev.items)
       THEN ev' = [ev EXCEPT !.ret = HeapNoLabel, !.last = "pop"]
       ELSE LET top == HeapTop(ev.items)
            IN ev' = [ev EXCEPT !.items = HeapRest(@),
                                !.ret = top,
                                !.last = "pop",
                                !.nout[top] = @ + 1,
                                !.run = Append(@, top.eta)]
    /\ UNCHANGED evFrame

NextHeap ==
    \/ EvHeapPush
    \/ EvHeapPop

SpecHeap == InitHeap /\ [][NextHeap]_vars

\* every label pushed so far was either returned or is still stored, as
\* often as it was pushed
HeapAccounted ==
    \A x \in HeapLabels : ev.nin[x] = ev.nout[x] + CountIn(ev.items, x)

\* the ETAs returned by consecutive pops never decrease
HeapRunSorted ==
    \A i \in 1..(Len(ev.run) - 1) : ev.run[i] <= ev.run[i + 1]

\* a pop on a non-empty heap returns a stored label of minimal eta and
\* takes exactly that label out
HeapPopStep ==
    (ev.pc = "heap" /\ ~heap_empty(ev.items) /\ ev'.last = "pop")
    => /\ \E i \in DOMAIN ev.items : ev.items[i] = ev'.ret
       /\ \A i \in DOMAIN ev.items : ev'.ret.eta <= ev.items[i].eta
       /\ \A x \in HeapLabels :
            CountIn(ev'.items, x) =
                CountIn(ev.items, x) - (IF x = ev'.ret THEN 1 ELSE 0)

\* C29 heap pop-min: after any sequence of heap_push and heap_pop calls,
\* heap_pop on a non-empty heap returns a stored label whose eta is minimal
\* among the stored labels and removes exactly that label; every pushed
\* label is stored or was returned exactly as often as it was pushed, and
\* pops that follow one another return non-decreasing ETAs, so popping until
\* empty yields every pushed label exactly once in non-decreasing eta order.
C29_HeapPopMin ==
    /\ [](ev.pc = "heap" => HeapAccounted /\ HeapRunSorted)
    /\ [][HeapPopStep]_vars

\* five labels, two of them with the same ETA and different contacts, have
\* been pushed and a run of five pops has emptied the heap
C29_Witness ==
    /\ ev.pc = "heap" /\ ev.last = "pop"
    /\ heap_empty(ev.items)
    /\ ev.pushes = HeapMaxPush /\ Len(ev.run) = HeapMaxPush
    /\ ev.run[1] < ev.run[HeapMaxPush]
    /\ \E x, y \in HeapLabels :
         /\ x # y /\ x.eta = y.eta
         /\ ev.nout[x] = 1 /\ ev.nout[y] = 1

\* ================================== the neighbour index on its own (C30)
\* build_neighbor_index on plans whose contacts may carry the node -1, then
\* consume_capacity along any list of contact ids and the index built again
IndexMaxSteps == 2
IndexBundle == 2000

IndexPlans ==
    UNION { { [i \in 1..n |->
                 MkContact(i, es[i],
                           [t_start |-> 0, t_end |-> 6000, rate_bps |-> 2,
                            setup_s |-> 0, owlt |-> 0,
                            residual_bytes |-> 2 * IndexBundle])] :
              es \in [1..n -> ({-1, 0, 1, 2} \X {-1, 1, 2})] } :
            n \in 1..3 }

\* the routes handed to consume_capacity: one or two contact ids, of the
\* plan or not
IndexRoutes ==
    { [found |-> TRUE, eta |-> 0, hops |-> Len(ids), contact_ids |-> ids] :
        ids \in UNION { [1..n -> {ContactId(i) : i \in 1..4}] : n \in 1..2 } }

IndexStart(C) ==
    [pc |-> "index", NI0 |-> build_neighbor_index(C), builds |-> 0,
     consumed |-> 0]

InitIndex ==
    /\ plan \in IndexPlans
    /\ NI = build_neighbor_index(plan)
    /\ P = [src_node |-> 0, dst_node |-> 2, t0 |-> 0,
            bundle_bytes |-> IndexBundle, expiry |-> 0]
    /\ op = "none" /\ pc = "idle"
    /\ F = NoFilter
    /\ s = IdleSearch
    /\ R = NotFound
    /\ W = << >>
    /\ RS = << >>
    /\ K = 0 /\ k = 0
    /\ calls = 0
    /\ pops = << >>
    /\ prev = NoPrev
    /\ nsearch = 0
    /\ mem = MemIdle /\ live = LiveIdle /\ cli = CliIdle /\ scan = ScanIdle
    /\ api = ApiIdle
    /\ ev = IndexStart(plan)

indexFrame ==
    << P, op, pc, F, s, R, W, RS, K, k, calls, pops, prev, nsearch,
       mem, live, cli, scan, api >>

\* consume_capacity(C, N, &route, &P)
IndexConsume ==
    /\ ev.pc = "index" /\ ev.consumed < IndexMaxSteps
    /\ \E route \in IndexRoutes : plan' = consume_capacity(plan, route, P)
    /\ ev' = [ev EXCEPT !.consumed = @ + 1]
    /\ UNCHANGED << NI, indexFrame >>

\* free_neighbor_index(NI); NI = build_neighbor_index(C, N)
IndexBuild ==
    /\ ev.pc = "index" /\ ev.builds < IndexMaxSteps
    /\ NI' = build_neighbor_index(plan)
    /\ ev' = [ev EXCEPT !.builds = @ + 1]
    /\ UNCHANGED << plan, indexFrame >>

NextIndex ==
    \/ IndexConsume
    \/ IndexBuild

SpecIndex == InitIndex /\ [][NextIndex]_vars

\* how often the contact index i stands in the list of node n
IndexCount(n, i) ==
    IF n \in 0..(NI.node_cap - 1) THEN CountIn(NI.by_from[n], i) ELSE 0

MovedBy(c, d) ==
    [id |-> c.id, from |-> c.from, to |-> c.to,
     t_start |-> c.t_start + d, t_end |-> c.t_end + d, owlt |-> c.owlt,
     rate_bps |-> c.rate_bps, setup_s |-> c.setup_s,
     residual_bytes |-> c.residual_bytes]

ApiSettleStep == api.pc = "settle" /\ api'.pc = "release"

\* the contact the best route starts with (ids are unique within a plan)
ApiFirstHop == CHOOSE i \in 1..Len(api.C) : api.C[i].id = api.best.contact_ids[1]

\* w = max(0, start_tx - now) of contact i, start_tx = max(now, t_start)
ApiObservedWait(i) ==
    LET start_tx == IF api.now > api.C[i].t_start THEN api.now
                    ELSE api.C[i].t_start
    IN IF start_tx - api.now > 0 THEN start_tx - api.now ELSE 0

\* C32 EWMA update rule and frame: penalties start at 0; the step that
\* settles a found route with first-hop contact c0 under learning sets
\* penalty[c0] to (1 - alpha) * old + alpha * w, w = max(0, start_tx - now)
\* of c0, and leaves every other entry alone; no other step (a cycle without
\* a route, a cycle without learning) changes any entry.
C32_EwmaUpdate ==
    /\ []( (api.pc \in {"check", "copy", "best", "yen", "settle"}
              /\ api.cycle = 1)
           => \A i \in 1..Len(api.E) : api.E[i] = 0 )
    /\ [][ api.pc \notin {"off", "exit"} =>
            IF ApiSettleStep /\ api.cfg.learn_ewma /\ api.best.found
            THEN LET c0 == ApiFirstHop
                 IN /\ AlphaDen * api'.E[c0] =
                          (AlphaDen - api.cfg.alpha) * api.E[c0]
                            + api.cfg.alpha * ApiObservedWait(c0)
                    /\ \A i \in 1..Len(api.E) :
                          i # c0 => api'.E[i] = api.E[i]
                    /\ Len(api'.E) = Len(api.E)
            ELSE api'.E = api.E ]_vars

\* with alpha = 1/2 a penalty was averaged a second time: it lies strictly
\* between half the wait of this cycle and that wait, while the other
\* contact's penalty is still 0
C32_Witness ==
    /\ api.pc = "release" /\ api.cycle = 2
    /\ api.cfg.learn_ewma /\ api.cfg.alpha = 1 /\ api.best.found
    /\ \E i \in 1..Len(api.E) :
         /\ api.C[i].id = api.best.contact_ids[1]
         /\ api.E[i] > ApiObservedWait(i) \div 2
         /\ api.E[i] < ApiObservedWait(i)
         /\ \E j \in 1..Len(api.E) : j # i /\ api.E[j] = 0

\* ============================ per-cycle release in both loops (C33)
\* either program: the live simulation or the planning cycles
InitCycles == InitLive \/ InitApi

NextCycles ==
    \/ NextLive
    \/ NextApi

SpecCycles == InitCycles /\ [][NextCycles]_vars

\* nothing of a cycle is live: no working plan, no index, no route buffer,
\* no list of alternatives
CycleObjectsFreed ==
    /\ plan = << >>
    /\ NI = build_neighbor_index(<< >>)
    /\ RS = << >>

\* C33 per-cycle release: at the start of every cycle of the live loop and
\* of the planning loop (the loop test and the first statement of the
\* body), and after the loop, no working plan, neighbour index, best-route
\* buffer or list of alternatives of an earlier cycle is live, whether or
\* not that cycle found a route or asked for alternatives.
C33_PerCycleRelease ==
    /\ live.pc \in {"check", "begin", "sleep", "advance"}
         => /\ CycleObjectsFreed
            /\ live.held = {"C0"}
            /\ live.best = NotFound
    /\ live.pc = "exit" => CycleObjectsFreed /\ live.held = {}
    /\ api.pc \in {"check", "copy", "exit"}
         => /\ CycleObjectsFreed
            /\ api.best = NotFound

\* the live loop starts its second cycle after a cycle that found a route
\* and computed alternatives
C33_Witness ==
    /\ live.pc = "begin" /\ live.completed = 1
    /\ live.k_alt > 0 /\ calls = 2
    /\ R.found
    /\ live.held = {"C0"}

\* ================================ K-consume iteration protocol (C34)
\* C34 K-consume iteration protocol: cgr_k_routes runs the base search at
\* most K times, each time on the working copy as the routes found so far
\* left it; a found route is appended and its capacity consumed, the first
\* search that finds nothing is the last; the list returned holds between 0
\* and K found routes, the first of which is the route of the base search on
\* the caller's plan, and it is shorter than K exactly when a search failed.
C34_KConsumeProtocol ==
    /\ []( op = "k_routes" =>
             /\ nsearch <= K /\ Len(RS) <= K
             /\ \A i \in 1..Len(RS) : RS[i].found
             /\ Len(RS) >= 1 => RS[1] = cgr_best_route(plan, P, NI)
             /\ pc = "kr" => nsearch = Len(RS)
             /\ pc = "done" =>
                   \/ nsearch = 0 /\ Len(RS) = 0 /\ (K <= 0 \/ NI.node_cap = 0)
                   \/ nsearch = Len(RS) /\ Len(RS) = K
                   \/ /\ nsearch = Len(RS) + 1 /\ Len(RS) < K
                      /\ ~cgr_best_route(W, P, NI).found )
    /\ [][ (op = "k_routes" /\ pc = "kr" /\ nsearch' = nsearch + 1) =>
            LET r == cgr_best_route(W, P, NI)
            IN IF r.found
               THEN /\ RS' = Append(RS, r)
                    /\ W' = consume_capacity(W, r, P)
                    /\ pc' = "kr"
               ELSE RS' = RS /\ W' = W /\ pc' = "done" ]_vars

\* asked for three routes, cgr_k_routes returned two: its third search found
\* nothing on the working copy the first two had consumed
C34_Witness ==
    /\ op = "k_routes" /\ pc = "done"
    /\ K = 3 /\ Len(RS) = 2 /\ nsearch = 3
    /\ W # plan

\* ===================== residuals under consumption, both places (C35)
\* cgr_k_routes called on any plan, or the planning cycles with --consume
InitConsume == Init \/ InitApi

NextConsume ==
    \/ api.pc = "off" /\ \E Kp \in 1..MaxK : KRoutesBegin(Kp)
    \/ KRoutesIter
    \/ KRoutesReturn
    \/ NextApi

SpecConsume == InitConsume /\ [][NextConsume]_vars

\* from C to Cn no residual grew or fell below 0, and the contacts whose id
\* is not among ids are as they were
ConsumedAlong(C, Cn, ids) ==
    /\ Len(Cn) = Len(C)
    /\ \A i \in 1..Len(C) :
         /\ Cn[i].residual_bytes >= 0
         /\ Cn[i].residual_bytes <= C[i].residual_bytes
         /\ [Cn[i] EXCEPT !.residual_bytes = 0]
              = [C[i] EXCEPT !.residual_bytes = 0]
         /\ CountIn(ids, C[i].id) = 0 => Cn[i] = C[i]

\* C35 residual stays non-negative and never grows: every step of
\* cgr_k_routes on its working copy and every step of the planning cycles on
\* the plan leaves each residual_bytes >= 0 and <= its value before the
\* step, and changes no contact outside the route being consumed.
C35_ResidualMonotone ==
    /\ []( /\ \A i \in 1..Len(W) : W[i].residual_bytes >= 0
           /\ api.pc # "off" =>
                \A i \in 1..Len(api.C) : api.C[i].residual_bytes >= 0 )
    /\ [][ /\ (op = "k_routes" /\ pc = "kr") =>
                ConsumedAlong(W, W',
                              IF Len(RS') > Len(RS)
                              THEN RS'[Len(RS')].contact_ids ELSE << >>)
           /\ api.pc \notin {"off", "exit"} =>
                ConsumedAlong(api.C, api'.C,
                              IF api.pc = "settle" /\ api.cfg.consume
                              THEN api.best.contact_ids ELSE << >>) ]_vars

\* cgr_k_routes has consumed a route over a contact that held less than the
\* bundle (within the tolerance): its residual is 0, and another contact of
\* the plan is untouched
C35_Witness ==
    /\ op = "k_routes" /\ pc = "done" /\ Len(RS) >= 1
    /\ \E i \in 1..Len(W) :
         /\ plan[i].residual_bytes > 0
         /\ plan[i].residual_bytes < P.bundle_bytes
         /\ W[i].residual_bytes = 0
    /\ \E i \in 1..Len(W) : W[i] = plan[i]

\* ===================================== K-consume ETAs are ordered (C36)
\* C36 K-consume ETAs are ordered: on a valid plan the ETAs of the routes in
\* the list of cgr_k_routes never decrease in order of return.
C36_KConsumeOrdered ==
    (op = "k_routes" /\ ValidPlan(plan)) =>
        \A i \in 1..(Len(RS) - 1) : RS[i].eta <= RS[i + 1].eta

\* cgr_k_routes returned three routes, the last strictly later than the
\* first
C36_Witness ==
    /\ op = "k_routes" /\ pc = "done" /\ ValidPlan(plan)
    /\ Len(RS) = 3
    /\ RS[1].eta < RS[3].eta

\* ============================== ranking of the diversified list (C37)
\* the four contacts of a plan with a direct contact 0 -> 2, a relay
\* 0 -> 1 -> 2 and a way back 1 -> 0
RankEdges == << <<0, 2>>, <<0, 1>>, <<1, 2>>, <<1, 0>> >>

RankProfiles ==
    { [t_start |-> 0, t_end |-> 20000, rate_bps |-> 2, setup_s |-> 0,
       owlt |-> 1000, residual_bytes |-> 4000],
      [t_start |-> 0, t_end |-> 20000, rate_bps |-> 2, setup_s |-> 0,
       owlt |-> 0, residual_bytes |-> 4000],
      [t_start |-> 9000, t_end |-> 20000, rate_bps |-> 2, setup_s |-> 0,
       owlt |-> 1000, residual_bytes |-> 4000],
      [t_start |-> 0, t_end |-> 2999, rate_bps |-> 2, setup_s |-> 0,
       owlt |-> 0, residual_bytes |-> 4000] }

RankPlans ==
    { [i \in 1..4 |-> MkContact(i, RankEdges[i], ps[i])] :
        ps \in [1..4 -> RankProfiles] }

InitRank ==
    /\ plan \in RankPlans
    /\ P = YenRequest(2)
    /\ NI = build_neighbor_index(plan)
    /\ op = "none" /\ pc = "idle"
    /\ F = NoFilter
    /\ s = IdleSearch
    /\ R = NotFound
    /\ W = << >>
    /\ RS = << >>
    /\ K = 0 /\ k = 0
    /\ calls = 0
    /\ pops = << >>
    /\ prev = NoPrev
    /\ nsearch = 0
    /\ AuxIdle

SpecRank == InitRank /\ [][NextYen]_vars

\* C37 K-yen ranking: in the list of cgr_k_yen the first route is the base
\* optimum and the ETAs of the routes never decrease in order of return.
C37_YenRanking ==
    (op = "k_yen" /\ Len(RS) >= 1) =>
        /\ RS[1] = cgr_best_route(plan, P, NI)
        /\ \A i \in 1..(Len(RS) - 1) : RS[i].eta <= RS[i + 1].eta

\* ================================== well-formed returned routes (C38)
\* ETA at the end of a chain of contacts entered at t0, by the arithmetic of
\* 4.C
RouteChainEta(cs, rq) == PlainEta(cs[Len(cs)], ArrivalAt(cs, rq, Len(cs)), rq)

\* C38 route well-formedness: every route returned with found = true has
\* hops >= 1 and as many contact ids as hops, its first contact leaves
\* src_node, its last contact arrives at dst_node, and its eta is the value
\* of chaining the single-hop ETA along its contacts from t0; a search that
\* returns found = false returns hops = 0 and no contact ids.
C38_RouteWellFormed ==
    /\ \A x \in Returned :
         LET cs == RouteContacts(x.C, x.route)
         IN /\ x.route.found
            /\ x.route.hops >= 1
            /\ Len(x.route.contact_ids) = x.route.hops
            /\ cs[1].from = P.src_node
            /\ cs[x.route.hops].to = P.dst_node
            /\ x.route.eta = RouteChainEta(cs, P)
    /\ (op = "best" /\ pc = "done" /\ ~R.found) =>
         /\ R.hops = 0
         /\ R.contact_ids = << >>

\* a search has returned a route of two hops whose second contact opens
\* after the bundle reached its origin
C38_Witness ==
    /\ op = "best" /\ pc = "done" /\ R.found /\ R.hops = 2
    /\ LET cs == RouteContacts(plan, R)
       IN /\ ArrivalAt(cs, P, 2) < cs[2].t_start
          /\ R.eta = RouteChainEta(cs, P)

\* ==================== periodized plans in double arithmetic (C39)
\* The loop of cgr_live with its times held in doubles.  A double keeps
\* DoubleBits significant bits of a value (53 in the build, against a
\* tolerance EPS_TIME of 1e-12 s; here the same ratio on a smaller scale:
\* whole ticks are exact below 2^DoubleBits ticks and rounded above); every
\* operation returns the representable value nearest to its exact result,
\* ties to the even mantissa.
DoubleBits == 12

RECURSIVE Pow2(_)
Pow2(n) == IF n = 0 THEN 1 ELSE 2 * Pow2(n - 1)

\* spacing of the doubles around a magnitude a, from spacing u upwards
RECURSIVE UlpOf(_, _)
UlpOf(a, u) == IF a < u * Pow2(DoubleBits) THEN u ELSE UlpOf(a, 2 * u)

\* the double nearest to x
RoundDouble(x) ==
    LET a == IF x < 0 THEN -x ELSE x
        u == UlpOf(a, 1)
        q == a \div u
        rest == a % u
        up == 2 * rest > u \/ (2 * rest = u /\ q % 2 = 1)
        m == (IF up THEN q + 1 ELSE q) * u
    IN IF x < 0 THEN -m ELSE m

\* (long)(a / b) for a >= 0, b > 0: the quotient is rounded to a double
\* before it is truncated, so a quotient within half a spacing below an
\* integer becomes that integer
RECURSIVE BinadeOf(_, _)
BinadeOf(n, e) == IF n <= e THEN e ELSE BinadeOf(n, 2 * e)

TruncQuotDouble(a, b) ==
    LET q0 == a \div b
        rest == a % b
    IN IF rest # 0 /\ 2 * (b - rest) * Pow2(DoubleBits) <= b * BinadeOf(q0 + 1, 1)
       THEN q0 + 1 ELSE q0

\* t_start += d; t_end += d
ShiftWindowDouble(c, d) ==
    [c EXCEPT !.t_start = RoundDouble(c.t_start + d),
              !.t_end = RoundDouble(c.t_end + d)]

\* periodize_contacts on doubles
periodize_contacts_double(base, t0, period) ==
    IF period <= 0 THEN base
    ELSE LET kk == TruncQuotDouble(t0, period)
             N == Len(base)
         IN [i \in 1..(2 * N) |->
               IF i <= N THEN ShiftWindowDouble(base[i], RoundDouble(kk * period))
               ELSE ShiftWindowDouble(base[i - N],
                                      RoundDouble((kk + 1) * period))]

\* available_bytes_window on doubles
available_bytes_window_double(c, t_in) ==
    IF t_in > RoundDouble(c.t_end + EPS_TIME) THEN 0
    ELSE LET window == RoundDouble(RoundDouble(c.t_end - StartTx(c, t_in))
                                   - c.setup_s)
         IN IF window <= EPS_TIME THEN 0
            ELSE RoundDouble(window * EffRate(c))

\* contact_is_viable on doubles
contact_is_viable_double(c, t_arrival, bundle_bytes) ==
    IF t_arrival > RoundDouble(c.t_end + EPS_TIME) THEN FALSE
    ELSE LET start_tx == StartTx(c, t_arrival)
             window == RoundDouble(RoundDouble(c.t_end - start_tx) - c.setup_s)
             rate == EffRate(c)
             cap_window == RoundDouble(window * rate)
             cap_actual == IF c.residual_bytes < cap_window
                           THEN c.residual_bytes ELSE cap_window
             tx_time == RoundDouble(bundle_bytes \div rate)
             finish == RoundDouble(RoundDouble(start_tx + c.setup_s) + tx_time)
         IN IF window <= EPS_TIME THEN FALSE
            ELSE IF RoundDouble(cap_actual + EPS_BYTES) < bundle_bytes THEN FALSE
            ELSE IF finish > RoundDouble(c.t_end + EPS_TIME) THEN FALSE
            ELSE TRUE

\* eta_contact on doubles, expiry_abs = 0 (the loop passes expiry = 0)
eta_contact_double(c, t_in, bundle_bytes) ==
    IF t_in > RoundDouble(c.t_end + EPS_TIME) THEN DBL_MAX
    ELSE LET avail == available_bytes_window_double(c, t_in)
             cap == IF c.residual_bytes < avail THEN c.residual_bytes ELSE avail
             start_tx == StartTx(c, t_in)
             rate == EffRate(c)
             tx_time == RoundDouble(bundle_bytes \div rate)
             finish == RoundDouble(RoundDouble(start_tx + c.setup_s) + tx_time)
         IN IF RoundDouble(cap + EPS_BYTES) < bundle_bytes THEN DBL_MAX
            ELSE IF finish > RoundDouble(c.t_end + EPS_TIME) THEN DBL_MAX
            ELSE RoundDouble(finish + c.owlt)

\* cgr_best_route on a plan whose contacts all lead from src_node to
\* dst_node: every contact that passes the seeding tests is labelled and
\* pushed, and the first label popped, the earliest, reaches dst_node and
\* ends the search; with no seed the queue is empty and nothing is found
DirectSeeds(C, rq) ==
    { i \in 1..Len(C) :
        /\ C[i].from = rq.src_node
        /\ contact_is_viable_double(C[i], rq.t0, rq.bundle_bytes)
        /\ eta_contact_double(C[i], rq.t0, rq.bundle_bytes) # DBL_MAX }

cgr_best_route_direct(C, rq) ==
    LET seeds == DirectSeeds(C, rq)
    IN IF seeds = {} THEN [found |-> FALSE, eta |-> DBL_MAX]
       ELSE [found |-> TRUE,
             eta |-> MinOf({ eta_contact_double(C[i], rq.t0, rq.bundle_bytes) :
                             i \in seeds })]

DriftMaxCycles == 3
DriftPeriods == {0, 3000, 5400}
DriftTicks == {1500, 2700}
DriftBundles == {400, 404}

\* base plans of one contact 0 -> 2 at rate 2
DriftContacts ==
    { MkContact(1, <<0, 2>>,
                [t_start |-> a, t_end |-> a + len, rate_bps |-> 2,
                 setup_s |-> 0, owlt |-> 0, residual_bytes |-> 4000]) :
        a \in {0, 101, 103}, len \in {200, 202, 400} }

DriftRequest(now, bytes) ==
    [src_node |-> 0, dst_node |-> 2, t0 |-> now, bundle_bytes |-> bytes,
     expiry |-> 0]

\* state at the first while test: sim_time = 0, cycle = 0
DriftStart(c, period, tick, bytes) ==
    [pc |-> "drift", at |-> "begin", base |-> << c >>, period |-> period,
     tick |-> tick, bundle |-> bytes, sim_time |-> 0, cycle |-> 0,
     C |-> << >>, best |-> [found |-> FALSE, eta |-> DBL_MAX]]

InitDrift ==
    /\ KernelIdle
    /\ mem = MemIdle /\ live = LiveIdle /\ cli = CliIdle /\ scan = ScanIdle
    /\ api = ApiIdle
    /\ ev \in { DriftStart(c, pd, tk, b) :
                  c \in DriftContacts, pd \in DriftPeriods, tk \in DriftTicks,
                  b \in DriftBundles }

\* cycle++; C = periodize_contacts(C0, N0, sim_time, L.period, &Nc)
DriftPeriodize ==
    /\ ev.pc = "drift" /\ ev.at = "begin"
    /\ ev.cycle < DriftMaxCycles
    /\ ev' = [ev EXCEPT !.at = "search", !.cycle = @ + 1,
                        !.C = periodize_contacts_double(ev.base, ev.sim_time,
                                                        ev.period)]
    /\ UNCHANGED evFrame

\* P = { src, dst, t0 = sim_time, ... }; best = cgr_best_route(C, Nc, &P, NI)
DriftSearch ==
    /\ ev.pc = "drift" /\ ev.at = "search"
    /\ ev' = [ev EXCEPT !.at = "advance",
                        !.best = cgr_best_route_direct(
                                     ev.C, DriftRequest(ev.sim_time, ev.bundle))]
    /\ UNCHANGED evFrame

\* the cycle's buffers are released; sim_time += L.tick
DriftAdvance ==
    /\ ev.pc = "drift" /\ ev.at = "advance"
    /\ ev' = [ev EXCEPT !.at = "begin", !.C = << >>,
                        !.sim_time = RoundDouble(ev.sim_time + ev.tick)]
    /\ UNCHANGED evFrame

NextDrift ==
    \/ DriftPeriodize
    \/ DriftSearch
    \/ DriftAdvance

SpecDrift == InitDrift /\ [][NextDrift]_vars

\* the base plan admits a route for a bundle dispatched at time 0
DriftBaseRoutable ==
    cgr_best_route_direct(ev.base, DriftRequest(0, ev.bundle)).found

\* C39 periodized plan stays routable: when every t_start of the base plan
\* is >= 0, the base plan admits a feasible route for a bundle dispatched at
\* time 0 and the period is > 0, the base search of every cycle, on the
\* periodized plan with t0 = the clock of the cycle, returns found = true.
C39_PeriodizedRoutable ==
    ( /\ ev.pc = "drift" /\ ev.at = "advance"
      /\ ev.period > 0 /\ ev.sim_time >= 0
      /\ \A i \in 1..Len(ev.base) : ev.base[i].t_start >= 0
      /\ DriftBaseRoutable )
    => ev.best.found

\* ===================================== termination of the searches (C40)
\* The K variants with the searches they call run pop by pop: pc "kr_loop"
\* is the search of one iteration of cgr_k_routes on its working copy,
\* "det_loop" the search of one detour of cgr_k_yen; s holds the labels and
\* the queue of the search in progress, pops its pops.

\* plans of three contacts open for the whole horizon, over the edges
\* 0 -> 1, 1 -> 2, 0 -> 2, 1 -> 0, the first contact the slowest
TermPlans ==
    { [i \in 1..3 |->
         MkContact(i, es[i], LongProfile(IF i = 1 THEN 1000 ELSE 0))] :
        es \in [1..3 -> Edges] }

InitTerm ==
    /\ plan \in TermPlans
    /\ P = YenRequest(2)
    /\ NI = build_neighbor_index(plan)
    /\ op = "none" /\ pc = "idle"
    /\ F = NoFilter
    /\ s = IdleSearch
    /\ R = NotFound
    /\ W = << >>
    /\ RS = << >>
    /\ K = 0 /\ k = 0
    /\ calls = 0
    /\ pops = << >>
    /\ prev = NoPrev
    /\ nsearch = 0
    /\ AuxIdle

\* entry of a search called by a K variant: an invalid request returns at
\* once, with nothing to pop
InnerStart(C, f) ==
    IF ValidRequest(C, P, NI) THEN SearchStart(C, P, NI, f) ELSE IdleSearch

\* for (k = 0; k < K; k++) { Route r = cgr_best_route(C, N, P, NI): entry
KRoutesSearch ==
    /\ pc = "kr"
    /\ k < K
    /\ s' = InnerStart(W, NoFilter)
    /\ pops' = << >>
    /\ nsearch' = nsearch + 1
    /\ pc' = "kr_loop"
    /\ UNCHANGED << plan, NI, P, op, F, R, W, RS, K, k, calls, prev >>
    /\ UNCHANGED auxVars

\* one iteration of the Dijkstra loop of that search
KRoutesPop ==
    /\ pc = "kr_loop"
    /\ ~LoopDone(s)
    /\ s' = PopStep(W, P, NI, NoFilter, s)
    /\ pops' = Append(pops, HeapTop(s.pq).eta)
    /\ UNCHANGED << plan, NI, P, op, pc, F, R, W, RS, K, k, calls, prev, nsearch >>
    /\ UNCHANGED auxVars

\* the search returns: if (!r.found) break; append; consume_capacity
KRoutesSearchEnd ==
    /\ pc = "kr_loop"
    /\ LoopDone(s)
    /\ LET r == Reconstruct(W, s)
       IN IF ~r.found
          THEN /\ pc' = "done"
               /\ UNCHANGED << RS, W, k >>
          ELSE /\ RS' = Append(RS, r)
               /\ W' = consume_capacity(W, r, P)
               /\ k' = k + 1
               /\ pc' = "kr"
    /\ UNCHANGED << plan, NI, P, op, F, s, R, K, calls, pops, prev, nsearch >>
    /\ UNCHANGED auxVars

\* body of the inner for loop: the filter of the detour is set and
\* cgr_best_route_filtered is entered
KYenDetourSearch ==
    /\ pc = "scan"
    /\ scan.route_idx <= Len(RS)
    /\ scan.i < RS[scan.route_idx].hops
    /\ F' = YenFilter(RS[scan.route_idx], scan.i)
    /\ s' = InnerStart(plan, YenFilter(RS[scan.route_idx], scan.i))
    /\ pops' = << >>
    /\ nsearch' = nsearch + 1
    /\ pc' = "det_loop"
    /\ UNCHANGED << plan, NI, P, op, R, W, RS, K, k, calls, prev, scan,
                    scanFrame >>

\* one iteration of the Dijkstra loop of the detour
KYenDetourPop ==
    /\ pc = "det_loop"
    /\ ~LoopDone(s)
    /\ s' = PopStep(plan, P, NI, F, s)
    /\ pops' = Append(pops, HeapTop(s.pq).eta)
    /\ UNCHANGED << plan, NI, P, op, pc, F, R, W, RS, K, k, calls, prev,
                    nsearch, scan, scanFrame >>

\* the detour returns: a candidate that was found, is not in the list and
\* is earlier than the best of the round so far becomes that best
KYenDetourEnd ==
    /\ pc = "det_loop"
    /\ LoopDone(s)
    /\ LET cand == Reconstruct(plan, s)
           better == /\ cand.found
                     /\ ~route_already_exists(RS, cand)
                     /\ cand.eta < scan.best_eta
       IN scan' = [scan EXCEPT !.i = @ + 1,
                               !.best = IF better THEN cand ELSE @,
                               !.best_eta = IF better THEN cand.eta ELSE @]
    /\ pc' = "scan"
    /\ UNCHANGED << plan, NI, P, op, F, s, R, W, RS, K, k, calls, pops, prev,
                    nsearch, scanFrame >>

\* the steps of a call in progress
KernelStep ==
    \/ BestRoutePop
    \/ BestRouteReturn
    \/ KRoutesSearch
    \/ KRoutesPop
    \/ KRoutesSearchEnd
    \/ KRoutesReturn
    \/ KYenRoundBegin
    \/ KYenDetourSearch
    \/ KYenDetourPop
    \/ KYenDetourEnd
    \/ KYenNextRoute
    \/ KYenRoundEnd
    \/ KYenReturn

NextTerm ==
    \/ \E f \in FilterChoices(plan) : BestRouteBegin(f)
    \/ \E Kp \in 1..MaxK : KRoutesBegin(Kp)
    \/ \E Kp \in 1..MaxK : KYenBegin(Kp)
    \/ KernelStep

\* The kernel runs in the caller's thread, with no lock, wait or signal: a
\* call in progress always executes its next statement.
SpecTerm == InitTerm /\ [][NextTerm]_vars /\ WF_vars(KernelStep)

InCall == pc \notin {"idle", "done"}

====
